---- MODULE Spec2Model ----
(***************************************************************************)
(* GoalGroup planning and re-planning subsystem of goal-agent:             *)
(*   - the guided GoalGroup wizard        (app/services/wizard_service.py) *)
(*   - the feasibility rule engine   (app/services/feasibility_service.py) *)
(*   - the change cooldown guard and the re-planning orchestrator          *)
(*                                    (app/services/goal_group_service.py) *)
(*   - plan generation                   (app/services/plan_generator.py)  *)
(*                                                                         *)
(* Dates and timestamps are whole days counted from a Monday (day 0).      *)
(* The record store is one shared store: a flushed write is visible to     *)
(* every later read, and the conditional update on replan_status is one    *)
(* atomic step.  Wizard handlers are atomic actions; the GoalGroup edits,  *)
(* the re-plan and live plan generation are split at their awaits so that  *)
(* two requests can interleave.                                            *)
(***************************************************************************)
EXTENDS Integers, Sequences, FiniteSets, TLC

VARIABLES now, targets, plans, groups, changes, wizards, procs

vars == <<now, targets, plans, groups, changes, wizards, procs>>

----------------------------------------------------------------------------
(* Bounds of the model                                                     *)

MaxPlans == 3
MaxLivePlans == 4
MaxWeeks == 1
MaxSpecs == 2
MaxWizards == 1
MaxChanges == 2
MaxCreated == 2
MaxGroups == 2
NumProcs == 2

(* Program constants                                                       *)

_CHANGE_COOLDOWN_DAYS == 7
WIZARD_TTL_DAYS == 1
_DAILY_MINUTES_LIMIT == 120
MIN_SPAN_DAYS == 7
DEFAULT_DAILY_MINUTES == 60
DEFAULT_PRIORITY == 3

None == -1

GoGetterIds == {1, 2}
TargetIds == 1 .. 4
ProcIds == 1 .. NumProcs

_TERMINAL == {"confirmed", "cancelled", "failed"}

----------------------------------------------------------------------------
(* Sequence helpers                                                        *)

Range(s) == {s[i] : i \in DOMAIN s}

SeqsUpTo(S, n) == UNION {[1 .. k -> S] : k \in 0 .. n}

RECURSIVE SumSeq(_)
SumSeq(s) == IF s = <<>> THEN 0 ELSE Head(s) + SumSeq(Tail(s))

Min(a, b) == IF a < b THEN a ELSE b

----------------------------------------------------------------------------
(* Plan generation (PlanGenerator).  The LLM answer is abstracted to the   *)
(* number of weeks it returns (week_number 1..n, one task per week);       *)
(* GenFail is the call raising after its retries.                          *)

GenFail == -1

GenOutcomes == {GenFail} \cup (1 .. MaxWeeks)

NewMilestone(start_date, end_date, week_num) ==
    LET ms_start == start_date + (week_num - 1) * 7
    IN  [week_number |-> week_num,
         start_date  |-> ms_start,
         end_date    |-> Min(ms_start + 6, end_date),
         tasks       |-> <<"active">>]

NewPlan(target_id, start_date, end_date, initial_status, weeks) ==
    [target_id        |-> target_id,
     status           |-> initial_status,
     start_date       |-> start_date,
     end_date         |-> end_date,
     version          |-> 1,
     superseded_by_id |-> None,
     group_id         |-> None,
     milestones       |-> [w \in 1 .. weeks |-> NewMilestone(start_date, end_date, w)]]

(* plan_generator.generate_plan, lines 153-159: complete the target's      *)
(* active plans.                                                           *)
DeactivateExisting(ps, target_id) ==
    [i \in DOMAIN ps |->
        IF ps[i].target_id = target_id /\ ps[i].status = "active"
        THEN [ps[i] EXCEPT !.status = "completed"]
        ELSE ps[i]]

(* generate_plan after the LLM answered: the new plan's id is Len + 1.     *)
generate_plan(ps, target_id, start_date, end_date, weeks, initial_status, deactivate_existing) ==
    Append(IF deactivate_existing THEN DeactivateExisting(ps, target_id) ELSE ps,
           NewPlan(target_id, start_date, end_date, initial_status, weeks))

ActivePlansOf(ps, target_id) ==
    {i \in DOMAIN ps : ps[i].target_id = target_id /\ ps[i].status = "active"}

----------------------------------------------------------------------------
(* Feasibility engine                                                      *)

(* Dictionary keys: str(k) and the integer k are different keys.           *)
Str(k) == <<"str", k>>

IntKey(k) == <<"int", k>>

(* {str(k): v for k, v in constraints.items()}                             *)
StrKeys(constraints) ==
    [key \in {Str(k[2]) : k \in DOMAIN constraints} |->
        IF IntKey(key[2]) \in DOMAIN constraints
        THEN constraints[IntKey(key[2])]
        ELSE constraints[Str(key[2])]]

(* A risk that blocks whatever its level.                                  *)
FeasibilityRisk_always_blocker(rule_code, level, subcategory_id) ==
    [rule_code      |-> rule_code,
     level          |-> level,
     subcategory_id |-> subcategory_id,
     is_blocker     |-> TRUE]

(* FeasibilityRisk.__post_init__: errors are always blockers.              *)
FeasibilityRisk(rule_code, level, subcategory_id) ==
    [rule_code      |-> rule_code,
     level          |-> level,
     subcategory_id |-> subcategory_id,
     is_blocker     |-> (level = "error")]

(* A constraint holds daily_minutes and the number of preferred_days;      *)
(* NoConstraint stands for the empty dict.                                 *)
NoConstraint == [daily_minutes |-> None, preferred_days |-> None]

(* _get_constraints_for_subcategory: string key first, then the int key.   *)
_get_constraints_for_subcategory(wizard_constraints, subcategory_id) ==
    IF Str(subcategory_id) \in DOMAIN wizard_constraints
    THEN wizard_constraints[Str(subcategory_id)]
    ELSE IF IntKey(subcategory_id) \in DOMAIN wizard_constraints
         THEN wizard_constraints[IntKey(subcategory_id)]
         ELSE NoConstraint

(* A span rule that also rejects a span of exactly the minimum.            *)
SpanRisks_inclusive(wizard) ==
    IF wizard.start_date # None /\ wizard.end_date # None
       /\ wizard.end_date - wizard.start_date <= MIN_SPAN_DAYS
    THEN <<FeasibilityRisk("RULE_SPAN_TOO_SHORT", "error", None)>>
    ELSE <<>>

(* check_feasibility, lines 97-108.                                        *)
SpanRisks(wizard) ==
    IF wizard.start_date # None /\ wizard.end_date # None
       /\ wizard.end_date - wizard.start_date < MIN_SPAN_DAYS
    THEN <<FeasibilityRisk("RULE_SPAN_TOO_SHORT", "error", None)>>
    ELSE <<>>

(* A feasibility check without the duplicate-subcategory rule.             *)
DuplicateRisks_none(specs, seen) == <<>>

RECURSIVE DuplicateRisks(_, _)
DuplicateRisks(specs, seen) ==
    IF specs = <<>> THEN <<>>
    ELSE LET sub_id == Head(specs).subcategory_id
         IN  IF sub_id = None THEN DuplicateRisks(Tail(specs), seen)
             ELSE (IF sub_id \in seen
                   THEN <<FeasibilityRisk("RULE_DUPLICATE_SUBCATEGORY", "error", sub_id)>>
                   ELSE <<>>)
                  \o DuplicateRisks(Tail(specs), seen \cup {sub_id})

ConflictingPlans(tg, ps, go_getter_id, sub_id, target_id) ==
    {i \in DOMAIN ps :
        /\ ps[i].status = "active"
        /\ ps[i].target_id \in DOMAIN tg
        /\ tg[ps[i].target_id].go_getter_id = go_getter_id
        /\ tg[ps[i].target_id].subcategory_id = sub_id
        /\ tg[ps[i].target_id].status = "active"
        /\ ps[i].target_id # target_id}

RECURSIVE ExistingSubcategoryRisks(_, _, _, _)
ExistingSubcategoryRisks(specs, wizard, tg, ps) ==
    IF specs = <<>> THEN <<>>
    ELSE LET spec == Head(specs)
         IN  (IF spec.subcategory_id # None
                 /\ ConflictingPlans(tg, ps, wizard.go_getter_id,
                                     spec.subcategory_id, spec.target_id) # {}
              THEN <<FeasibilityRisk("RULE_EXISTING_ACTIVE_SUBCATEGORY", "error",
                                     spec.subcategory_id)>>
              ELSE <<>>)
             \o ExistingSubcategoryRisks(Tail(specs), wizard, tg, ps)

ActiveGroupsOf(gs, go_getter_id) ==
    {g \in DOMAIN gs : gs[g].go_getter_id = go_getter_id /\ gs[g].status = "active"}

ExistingGroupRisks(wizard, gs) ==
    IF ActiveGroupsOf(gs, wizard.go_getter_id) # {}
    THEN <<FeasibilityRisk("RULE_EXISTING_ACTIVE_GROUP", "warning", None)>>
    ELSE <<>>

(* lines 186-190: the constraint of one spec, with the rule defaults.      *)
SpecConstraint(wizard, spec) ==
    IF spec.subcategory_id # None /\ spec.subcategory_id # 0
    THEN _get_constraints_for_subcategory(wizard.constraints, spec.subcategory_id)
    ELSE NoConstraint

SpecDailyMinutes(wizard, spec) ==
    LET c == SpecConstraint(wizard, spec)
    IN  IF c.daily_minutes = None THEN DEFAULT_DAILY_MINUTES ELSE c.daily_minutes

SpecPreferredDayCount(wizard, spec) ==
    LET c == SpecConstraint(wizard, spec)
    IN  IF c.preferred_days = None THEN 7 ELSE c.preferred_days

RECURSIVE ConstraintRisks(_, _)
ConstraintRisks(specs, wizard) ==
    IF specs = <<>> THEN <<>>
    ELSE LET spec == Head(specs)
         IN  (IF SpecDailyMinutes(wizard, spec) > _DAILY_MINUTES_LIMIT
              THEN <<FeasibilityRisk("RULE_SINGLE_TARGET_OVERLOAD", "warning",
                                     spec.subcategory_id)>>
              ELSE <<>>)
             \o (IF SpecPreferredDayCount(wizard, spec) < 3
                 THEN <<FeasibilityRisk("RULE_TOO_FEW_DAYS", "warning",
                                        spec.subcategory_id)>>
                 ELSE <<>>)
             \o ConstraintRisks(Tail(specs), wizard)

TotalDailyMinutes(wizard) ==
    SumSeq([i \in DOMAIN wizard.target_specs |->
                SpecDailyMinutes(wizard, wizard.target_specs[i])])

(* A total-overload rule that also fires for a single target spec.         *)
OverloadRisks_single_too(wizard) ==
    IF TotalDailyMinutes(wizard) > _DAILY_MINUTES_LIMIT
    THEN <<FeasibilityRisk("RULE_OVERLOAD", "warning", None)>>
    ELSE <<>>

(* check_feasibility, lines 222-234.                                       *)
OverloadRisks(wizard) ==
    IF TotalDailyMinutes(wizard) > _DAILY_MINUTES_LIMIT /\ Len(wizard.target_specs) > 1
    THEN <<FeasibilityRisk("RULE_OVERLOAD", "warning", None)>>
    ELSE <<>>

check_feasibility(wizard, tg, ps, gs) ==
    SpanRisks(wizard)
    \o DuplicateRisks(wizard.target_specs, {})
    \o ExistingSubcategoryRisks(wizard.target_specs, wizard, tg, ps)
    \o ExistingGroupRisks(wizard, gs)
    \o ConstraintRisks(wizard.target_specs, wizard)
    \o OverloadRisks(wizard)

(* The two scalar_one_or_none() calls of check_feasibility (lines 146 and  *)
(* 169) raise MultipleResultsFound when their query returns several rows.  *)
check_feasibilityError(wizard, tg, ps, gs) ==
    IF \E i \in DOMAIN wizard.target_specs :
          /\ wizard.target_specs[i].subcategory_id # None
          /\ Cardinality(ConflictingPlans(tg, ps, wizard.go_getter_id,
                             wizard.target_specs[i].subcategory_id,
                             wizard.target_specs[i].target_id)) > 1
    THEN "multiple_rows"
    ELSE IF Cardinality(ActiveGroupsOf(gs, wizard.go_getter_id)) > 1
         THEN "multiple_rows"
         ELSE "ok"

(* passed = not any(r.is_blocker for r in risks), stored as 1 / 0.         *)
FeasibilityPassed(risks) ==
    IF \E i \in DOMAIN risks : risks[i].is_blocker THEN 0 ELSE 1

----------------------------------------------------------------------------
(* Records of the store                                                    *)

NewWizard(go_getter_id, expires_at) ==
    [go_getter_id       |-> go_getter_id,
     status             |-> "collecting_scope",
     group_title        |-> "",
     start_date         |-> None,
     end_date           |-> None,
     target_specs       |-> <<>>,
     constraints        |-> <<>>,
     draft_plan_ids     |-> <<>>,
     feasibility_passed |-> None,
     feasibility_risks  |-> <<>>,
     goal_group_id      |-> None,
     generation_errors  |-> <<>>,
     expires_at         |-> expires_at]

NewGroup(go_getter_id, title, start_date, end_date) ==
    [go_getter_id   |-> go_getter_id,
     title          |-> title,
     status         |-> "active",
     start_date     |-> start_date,
     end_date       |-> end_date,
     last_change_at |-> None,
     replan_status  |-> "idle"]

----------------------------------------------------------------------------
(* Wizard orchestrator: every handler is one atomic action.  A handler     *)
(* that raises writes nothing; the error it raises is the value of its     *)
(* ...Error operator ("ok" when it does not raise).                        *)

ActiveWizardsOf(ws, go_getter_id) ==
    {w \in DOMAIN ws : ws[w].go_getter_id = go_getter_id /\ ws[w].status \notin _TERMINAL}

create_wizardError(ws, go_getter_id) ==
    IF ActiveWizardsOf(ws, go_getter_id) # {} THEN "wizard_exists" ELSE "ok"

create_wizard(go_getter_id) ==
    /\ Len(wizards) < MaxWizards \/ create_wizardError(wizards, go_getter_id) # "ok"
    /\ IF create_wizardError(wizards, go_getter_id) # "ok"
       THEN UNCHANGED wizards
       ELSE wizards' = Append(wizards, NewWizard(go_getter_id, now + WIZARD_TTL_DAYS))
    /\ UNCHANGED <<now, targets, plans, groups, changes, procs>>

_assert_not_terminal(wizard) ==
    IF wizard.status \in _TERMINAL THEN "terminal" ELSE "ok"

(* A scope check that accepts any date window.                             *)
set_scopeError_any_span(wizard, start_date, end_date) ==
    IF _assert_not_terminal(wizard) # "ok" THEN "terminal" ELSE "ok"

set_scopeError(wizard, start_date, end_date) ==
    IF _assert_not_terminal(wizard) # "ok" THEN "terminal"
    ELSE IF end_date - start_date < MIN_SPAN_DAYS THEN "span_too_short"
    ELSE "ok"

set_scope(w, title, start_date, end_date) ==
    /\ IF set_scopeError(wizards[w], start_date, end_date) # "ok"
       THEN UNCHANGED wizards
       ELSE wizards' = [wizards EXCEPT ![w] =
                          [@ EXCEPT !.group_title = title,
                                    !.start_date = start_date,
                                    !.end_date = end_date,
                                    !.status = "collecting_targets"]]
    /\ UNCHANGED <<now, targets, plans, groups, changes, procs>>

(* A normalisation that keeps the subcategory the caller sent.             *)
RECURSIVE NormalizeSpecs_as_sent(_, _, _)
NormalizeSpecs_as_sent(specs, wizard, tg) ==
    IF specs = <<>> THEN [error |-> "ok", specs |-> <<>>]
    ELSE LET spec == Head(specs)
             rest == NormalizeSpecs_as_sent(Tail(specs), wizard, tg)
         IN  IF spec.target_id \notin DOMAIN tg
             THEN [error |-> "target_not_found", specs |-> <<>>]
             ELSE IF tg[spec.target_id].go_getter_id # wizard.go_getter_id
             THEN [error |-> "foreign_target", specs |-> <<>>]
             ELSE IF rest.error # "ok" THEN rest
             ELSE [error |-> "ok", specs |-> <<spec>> \o rest.specs]

(* set_targets, lines 98-117: the first spec that is unknown or foreign    *)
(* raises; otherwise the subcategory is read from the Target row.          *)
RECURSIVE NormalizeSpecs(_, _, _)
NormalizeSpecs(specs, wizard, tg) ==
    IF specs = <<>> THEN [error |-> "ok", specs |-> <<>>]
    ELSE LET spec == Head(specs)
             rest == NormalizeSpecs(Tail(specs), wizard, tg)
         IN  IF spec.target_id \notin DOMAIN tg
             THEN [error |-> "target_not_found", specs |-> <<>>]
             ELSE IF tg[spec.target_id].go_getter_id # wizard.go_getter_id
             THEN [error |-> "foreign_target", specs |-> <<>>]
             ELSE IF rest.error # "ok" THEN rest
             ELSE [error |-> "ok",
                   specs |-> <<[target_id      |-> spec.target_id,
                                subcategory_id |-> tg[spec.target_id].subcategory_id,
                                priority       |-> spec.priority]>> \o rest.specs]

set_targetsError(wizard, target_specs, tg) ==
    IF _assert_not_terminal(wizard) # "ok" THEN "terminal"
    ELSE NormalizeSpecs(target_specs, wizard, tg).error

set_targets(w, target_specs) ==
    /\ IF set_targetsError(wizards[w], target_specs, targets) # "ok"
       THEN UNCHANGED wizards
       ELSE wizards' = [wizards EXCEPT ![w] =
                          [@ EXCEPT !.target_specs =
                                       NormalizeSpecs(target_specs, wizards[w], targets).specs,
                                    !.status = "collecting_constraints"]]
    /\ UNCHANGED <<now, targets, plans, groups, changes, procs>>

(* A draft generation that leaves deactivate_existing at its default.      *)
WizardDraftPlan_deactivating(ps, target_id, start_date, end_date, weeks) ==
    generate_plan(ps, target_id, start_date, end_date, weeks, "draft", TRUE)

(* _generate_and_check, lines 376-388: a draft plan, live plans untouched. *)
WizardDraftPlan(ps, target_id, start_date, end_date, weeks) ==
    generate_plan(ps, target_id, start_date, end_date, weeks, "draft", FALSE)

(* A batch that stops at the first generation that fails.                  *)
RECURSIVE GenerateDrafts_aborting(_, _, _, _, _)
GenerateDrafts_aborting(specs, outs, wizard, tg, acc) ==
    IF specs = <<>> THEN acc
    ELSE LET spec == Head(specs)
             out  == IF wizard.start_date = None \/ wizard.end_date = None
                     THEN GenFail ELSE Head(outs)
         IN  IF spec.target_id \notin DOMAIN tg \/ out = GenFail
             THEN [acc EXCEPT !.errors = Append(@, [target_id |-> spec.target_id])]
             ELSE GenerateDrafts_aborting(Tail(specs), Tail(outs), wizard, tg,
                    [acc EXCEPT
                       !.plans = WizardDraftPlan(@, spec.target_id, wizard.start_date,
                                                 wizard.end_date, out),
                       !.draft_plan_ids = Append(@, Len(acc.plans) + 1)])

(* _generate_and_check, lines 355-397: one generation per target spec.     *)
(* A wizard without dates makes generate_plan raise on the date span.      *)
RECURSIVE GenerateDrafts(_, _, _, _, _)
GenerateDrafts(specs, outs, wizard, tg, acc) ==
    IF specs = <<>> THEN acc
    ELSE LET spec == Head(specs)
             out  == IF wizard.start_date = None \/ wizard.end_date = None
                     THEN GenFail ELSE Head(outs)
             failed == [acc EXCEPT !.errors = Append(@, [target_id |-> spec.target_id])]
         IN  IF spec.target_id \notin DOMAIN tg
             THEN GenerateDrafts(Tail(specs), Tail(outs), wizard, tg, failed)
             ELSE IF out = GenFail
             THEN GenerateDrafts(Tail(specs), Tail(outs), wizard, tg, failed)
             ELSE GenerateDrafts(Tail(specs), Tail(outs), wizard, tg,
                    [acc EXCEPT
                       !.plans = WizardDraftPlan(@, spec.target_id, wizard.start_date,
                                                 wizard.end_date, out),
                       !.draft_plan_ids = Append(@, Len(acc.plans) + 1)])

(* _generate_and_check, lines 399-417: the wizard after generation and     *)
(* the feasibility check.                                                  *)
CheckedWizard(wizard, gen, tg, gs) ==
    LET generated == [wizard EXCEPT !.status = "generating_plans",
                                    !.draft_plan_ids = gen.draft_plan_ids,
                                    !.generation_errors = gen.errors]
        risks == check_feasibility(generated, tg, gen.plans, gs)
    IN  IF check_feasibilityError(generated, tg, gen.plans, gs) # "ok"
        THEN generated
        ELSE [generated EXCEPT !.feasibility_risks = risks,
                               !.feasibility_passed = FeasibilityPassed(risks),
                               !.status = "feasibility_check"]

(* _generate_and_check on a wizard record and the plans it starts from.    *)
_generate_and_check(w, wizard, ps, outs) ==
    LET gen == GenerateDrafts(wizard.target_specs, outs, wizard, targets,
                   [plans |-> ps, draft_plan_ids |-> <<>>, errors |-> <<>>])
    IN  /\ plans' = gen.plans
        /\ wizards' = [wizards EXCEPT ![w] = CheckedWizard(wizard, gen, targets, groups)]

set_constraintsError(wizard) == _assert_not_terminal(wizard)

set_constraints(w, constraints, outs) ==
    /\ Len(plans) + Len(wizards[w].target_specs) <= MaxPlans
    /\ IF set_constraintsError(wizards[w]) # "ok"
       THEN UNCHANGED <<wizards, plans>>
       ELSE _generate_and_check(w,
               [wizards[w] EXCEPT !.constraints = StrKeys(constraints),
                                  !.status = "generating_plans"], plans, outs)
    /\ UNCHANGED <<now, targets, groups, changes, procs>>

(* A run_feasibility without the terminal-state check.                     *)
run_feasibilityError_unchecked(wizard) == "ok"

run_feasibilityError(wizard) == _assert_not_terminal(wizard)

run_feasibility(w) ==
    /\ IF \/ run_feasibilityError(wizards[w]) # "ok"
          \/ check_feasibilityError(wizards[w], targets, plans, groups) # "ok"
       THEN UNCHANGED wizards
       ELSE LET risks == check_feasibility(wizards[w], targets, plans, groups)
            IN  wizards' = [wizards EXCEPT ![w] =
                              [@ EXCEPT !.feasibility_risks = risks,
                                        !.feasibility_passed = FeasibilityPassed(risks),
                                        !.status = "feasibility_check"]]
    /\ UNCHANGED <<now, targets, plans, groups, changes, procs>>

(* A cancellation that does not look at the plan's status or at the list.  *)
_cancel_draft_plans_every_plan(ps, wizard) ==
    [i \in DOMAIN ps |-> [ps[i] EXCEPT !.status = "cancelled"]]

(* _cancel_draft_plans: every listed plan that is still draft is cancelled *)
_cancel_draft_plans(ps, wizard) ==
    [i \in DOMAIN ps |->
        IF i \in Range(wizard.draft_plan_ids) /\ ps[i].status = "draft"
        THEN [ps[i] EXCEPT !.status = "cancelled"]
        ELSE ps[i]]

(* A patch that is stored whole, absent parts as empty values.             *)
Patched_whole(wizard, patch) ==
    [wizard EXCEPT
       !.status = "adjusting",
       !.target_specs = patch.target_specs,
       !.constraints = StrKeys(patch.constraints)]

(* adjust, lines 176-185: only the supplied parts of the patch are stored. *)
Patched(wizard, patch) ==
    [wizard EXCEPT
       !.status = "adjusting",
       !.target_specs = IF patch.has_target_specs THEN patch.target_specs ELSE @,
       !.constraints = IF patch.has_constraints THEN StrKeys(patch.constraints) ELSE @]

adjustError(wizard) == _assert_not_terminal(wizard)

adjust(w, patch, outs) ==
    /\ Len(plans) + Len(Patched(wizards[w], patch).target_specs) <= MaxPlans
    /\ IF adjustError(wizards[w]) # "ok"
       THEN UNCHANGED <<wizards, plans>>
       ELSE LET patched == Patched(wizards[w], patch)
            IN  _generate_and_check(w,
                   [patched EXCEPT !.draft_plan_ids = <<>>,
                                   !.status = "generating_plans"],
                   _cancel_draft_plans(plans, patched), outs)
    /\ UNCHANGED <<now, targets, groups, changes, procs>>

(* confirm, lines 202-229: the checks made before anything is written.     *)
confirmError(wizard, gs) ==
    IF _assert_not_terminal(wizard) # "ok" THEN "terminal"
    ELSE IF wizard.feasibility_passed = None THEN "feasibility_not_run"
    ELSE IF wizard.feasibility_passed = 0 THEN "blocking_issues"
    ELSE IF wizard.draft_plan_ids = <<>> THEN "no_draft_plans"
    ELSE IF wizard.generation_errors # <<>> THEN "generation_errors"
    ELSE IF ActiveGroupsOf(gs, wizard.go_getter_id) # {} THEN "active_group_exists"
    ELSE "ok"

(* An activation that leaves the live plan of the target as it is.         *)
ActivateDraft_keeping_live(acc, plan_id, group_id) ==
    IF plan_id \notin DOMAIN acc.plans THEN acc
    ELSE IF acc.plans[plan_id].status # "draft" THEN acc
    ELSE [plans   |-> [acc.plans EXCEPT ![plan_id] =
                         [@ EXCEPT !.status = "active", !.group_id = group_id]],
          targets |-> acc.targets,
          linked  |-> acc.linked \cup {acc.plans[plan_id].target_id}]

(* confirm, lines 249-273: activate one draft plan and link its target.    *)
ActivateDraft(acc, plan_id, group_id) ==
    IF plan_id \notin DOMAIN acc.plans THEN acc
    ELSE IF acc.plans[plan_id].status # "draft" THEN acc
    ELSE LET target_id == acc.plans[plan_id].target_id
             completed == DeactivateExisting(acc.plans, target_id)
         IN  [plans   |-> [completed EXCEPT ![plan_id] =
                             [@ EXCEPT !.status = "active", !.group_id = group_id]],
              targets |-> IF target_id \notin acc.linked /\ target_id \in DOMAIN acc.targets
                          THEN [acc.targets EXCEPT ![target_id] =
                                  [@ EXCEPT !.group_id = group_id]]
                          ELSE acc.targets,
              linked  |-> acc.linked \cup {target_id}]

RECURSIVE ActivateDrafts(_, _, _)
ActivateDrafts(plan_ids, acc, group_id) ==
    IF plan_ids = <<>> THEN acc
    ELSE ActivateDrafts(Tail(plan_ids), ActivateDraft(acc, Head(plan_ids), group_id),
                        group_id)

confirm(w) ==
    LET wizard == wizards[w]
        error == confirmError(wizard, groups)
        group_id == Len(groups) + 1
        done == ActivateDrafts(wizard.draft_plan_ids,
                    [plans |-> plans, targets |-> targets, linked |-> {}], group_id)
    IN  /\ IF error # "ok"
           THEN UNCHANGED <<wizards, plans, targets, groups>>
           ELSE /\ groups' = Append(groups,
                       NewGroup(wizard.go_getter_id,
                                IF wizard.group_title = "" THEN "My Goal Group"
                                ELSE wizard.group_title,
                                wizard.start_date, wizard.end_date))
                /\ plans' = done.plans
                /\ targets' = done.targets
                /\ wizards' = [wizards EXCEPT ![w] =
                                 [@ EXCEPT !.goal_group_id = group_id,
                                           !.status = "confirmed"]]
        /\ UNCHANGED <<now, changes, procs>>

cancel_wizard(w) ==
    /\ IF wizards[w].status \in _TERMINAL
       THEN UNCHANGED <<wizards, plans>>
       ELSE /\ plans' = _cancel_draft_plans(plans, wizards[w])
            /\ wizards' = [wizards EXCEPT ![w] = [@ EXCEPT !.status = "cancelled"]]
    /\ UNCHANGED <<now, targets, groups, changes, procs>>

----------------------------------------------------------------------------
(* Change cooldown guard and re-planning orchestrator.  A request is a     *)
(* process: pc is the await it is suspended at, the other fields are its   *)
(* local variables.                                                        *)

IdleProc ==
    [pc |-> "idle", op |-> "none", go_getter_id |-> None,
     group_id |-> None, target_id |-> None,
     wizard_id |-> None,
     last_change_at |-> None, change_id |-> None, replan_from |-> None,
     todo |-> <<>>, active_plan |-> None, weeks |-> None, new_plan |-> None,
     new_plan_ids |-> <<>>, outcome |-> "none"]

(* The request has returned (or raised): outcome is what its caller sees.  *)
Returned(outcome) == [IdleProc EXCEPT !.outcome = outcome]

weekday(d) == d % 7

(* A next-Monday computation that returns from_date itself on a Monday.    *)
_next_monday_same_day(from_date) ==
    from_date + ((7 - weekday(from_date)) % 7)

(* _next_monday: the Monday of the week after from_date's ISO week.        *)
_next_monday(from_date) ==
    LET days_until_monday == (7 - weekday(from_date)) % 7
    IN  from_date + (IF days_until_monday = 0 THEN 7 ELSE days_until_monday)

(* assert_change_allowed on the group object the request loaded.           *)
assert_change_allowed(last_change_at, today) ==
    IF last_change_at = None THEN "ok"
    ELSE IF today - last_change_at < _CHANGE_COOLDOWN_DAYS THEN "cooldown"
    ELSE "ok"

(* assert_subcategory_available, called without exclude_target_id.         *)
assert_subcategory_available(tg, ps, go_getter_id, subcategory_id) ==
    IF ConflictingPlans(tg, ps, go_getter_id, subcategory_id, None) # {}
    THEN "subcategory_taken" ELSE "ok"

(* A superseding that spares the milestone starting on the next Monday.    *)
SupersededMilestone_strictly_after(m, replan_from) ==
    IF m.start_date > replan_from
    THEN [m EXCEPT !.tasks = [k \in DOMAIN m.tasks |->
                                IF m.tasks[k] = "active" THEN "superseded"
                                ELSE m.tasks[k]]]
    ELSE m

(* _supersede_future_tasks: active tasks of milestones starting on or      *)
(* after the next Monday become superseded.                                *)
SupersededMilestone(m, replan_from) ==
    IF m.start_date >= replan_from
    THEN [m EXCEPT !.tasks = [k \in DOMAIN m.tasks |->
                                IF m.tasks[k] = "active" THEN "superseded"
                                ELSE m.tasks[k]]]
    ELSE m

_supersede_future_tasks(ps, plan_id, today) ==
    [ps EXCEPT ![plan_id].milestones =
        [k \in DOMAIN @ |-> SupersededMilestone(@[k], _next_monday(today))]]

(* record_change: append the audit row, stamp last_change_at.              *)
NewChange(group_id, change_type, target_id, today) ==
    [group_id |-> group_id, change_type |-> change_type, target_id |-> target_id,
     triggered_replan_at |-> None, replan_plan_id |-> None, created_at |-> today]

(* Requests that have passed the API checks and not yet recorded a change. *)
PendingEdits == {p \in ProcIds : procs[p].pc = "edit"}

(* POST /goal-groups/{id}/targets up to the call of the service: the group *)
(* and the target are loaded and checked.                                  *)
StartAddTarget(p, g, t) ==
    /\ procs[p].pc = "idle"
    /\ Len(changes) + Cardinality(PendingEdits) < MaxChanges
    /\ groups[g].status = "active"
    /\ targets[t].go_getter_id = groups[g].go_getter_id
    /\ targets[t].status # "cancelled"
    /\ procs' = [procs EXCEPT ![p] =
                   [IdleProc EXCEPT !.pc = "edit", !.op = "add_target",
                                            !.group_id = g, !.target_id = t,
                                            !.last_change_at = groups[g].last_change_at]]
    /\ UNCHANGED <<now, targets, plans, groups, changes, wizards>>

(* DELETE /goal-groups/{id}/targets/{target_id} up to the service call.    *)
StartRemoveTarget(p, g, t) ==
    /\ procs[p].pc = "idle"
    /\ Len(changes) + Cardinality(PendingEdits) < MaxChanges
    /\ groups[g].status = "active"
    /\ targets[t].group_id = g
    /\ targets[t].status # "cancelled"
    /\ procs' = [procs EXCEPT ![p] =
                   [IdleProc EXCEPT !.pc = "edit", !.op = "remove_target",
                                            !.group_id = g, !.target_id = t,
                                            !.last_change_at = groups[g].last_change_at]]
    /\ UNCHANGED <<now, targets, plans, groups, changes, wizards>>

(* An add_target that skips the cooldown guard.                            *)
add_target_to_groupError_no_cooldown(pr, tg, ps, gs, today) ==
    IF tg[pr.target_id].subcategory_id # None /\ tg[pr.target_id].subcategory_id # 0
    THEN assert_subcategory_available(tg, ps, gs[pr.group_id].go_getter_id,
                                      tg[pr.target_id].subcategory_id)
    ELSE "ok"

add_target_to_groupError(pr, tg, ps, gs, today) ==
    IF assert_change_allowed(pr.last_change_at, today) # "ok" THEN "cooldown"
    ELSE IF tg[pr.target_id].subcategory_id # None /\ tg[pr.target_id].subcategory_id # 0
    THEN assert_subcategory_available(tg, ps, gs[pr.group_id].go_getter_id,
                                      tg[pr.target_id].subcategory_id)
    ELSE "ok"

(* add_target_to_group up to trigger_replan.                               *)
add_target_to_group(p) ==
    LET pr == procs[p]
        error == add_target_to_groupError(pr, targets, plans, groups, now)
    IN  /\ pr.pc = "edit" /\ pr.op = "add_target"
        /\ IF error # "ok"
           THEN /\ procs' = [procs EXCEPT ![p] = Returned(error)]
                /\ UNCHANGED <<targets, changes, groups>>
           ELSE /\ targets' = [targets EXCEPT ![pr.target_id].group_id = pr.group_id]
                /\ changes' = Append(changes,
                      NewChange(pr.group_id, "target_added", pr.target_id, now))
                /\ groups' = [groups EXCEPT ![pr.group_id].last_change_at = now]
                /\ procs' = [procs EXCEPT ![p] =
                               [pr EXCEPT !.pc = "replan", !.change_id = Len(changes) + 1]]
        /\ UNCHANGED <<now, plans, wizards>>

(* A cancellation that leaves the tasks of the plan as they are.           *)
CancelActivePlan_keeping_tasks(ps, target_id, today) ==
    IF ActivePlansOf(ps, target_id) = {} THEN ps
    ELSE LET plan_id == CHOOSE i \in ActivePlansOf(ps, target_id) : TRUE
         IN  [ps EXCEPT ![plan_id].status = "cancelled"]

(* remove_target_from_group, lines 271-281: supersede and cancel the       *)
(* target's active plan, if it has one.                                    *)
CancelActivePlan(ps, target_id, today) ==
    IF ActivePlansOf(ps, target_id) = {} THEN ps
    ELSE LET plan_id == CHOOSE i \in ActivePlansOf(ps, target_id) : TRUE
         IN  [_supersede_future_tasks(ps, plan_id, today) EXCEPT
                 ![plan_id].status = "cancelled"]

(* scalar_one_or_none raises when the target has several active plans;     *)
(* the query has by then flushed the cancellation of the target.           *)
remove_target_from_groupError(pr, ps, today) ==
    IF assert_change_allowed(pr.last_change_at, today) # "ok" THEN "cooldown"
    ELSE IF Cardinality(ActivePlansOf(ps, pr.target_id)) > 1 THEN "multiple_rows"
    ELSE "ok"

(* remove_target_from_group up to trigger_replan.                          *)
remove_target_from_group(p) ==
    LET pr == procs[p]
        error == remove_target_from_groupError(pr, plans, now)
    IN  /\ pr.pc = "edit" /\ pr.op = "remove_target"
        /\ IF error = "cooldown"
           THEN /\ procs' = [procs EXCEPT ![p] = Returned(error)]
                /\ UNCHANGED <<targets, plans, changes, groups>>
           ELSE IF error = "multiple_rows"
           THEN /\ targets' = [targets EXCEPT ![pr.target_id].status = "cancelled"]
                /\ procs' = [procs EXCEPT ![p] = Returned(error)]
                /\ UNCHANGED <<plans, changes, groups>>
           ELSE /\ targets' = [targets EXCEPT ![pr.target_id].status = "cancelled"]
                /\ plans' = CancelActivePlan(plans, pr.target_id, now)
                /\ changes' = Append(changes,
                      NewChange(pr.group_id, "target_removed", pr.target_id, now))
                /\ groups' = [groups EXCEPT ![pr.group_id].last_change_at = now]
                /\ procs' = [procs EXCEPT ![p] =
                               [pr EXCEPT !.pc = "replan", !.change_id = Len(changes) + 1]]
        /\ UNCHANGED <<now, wizards>>

(* An acquisition whose update carries no condition on replan_status.      *)
acquire_replan_lock_unconditional(gs, group_id) ==
    [acquired |-> TRUE, groups |-> [gs EXCEPT ![group_id].replan_status = "in_progress"]]

(* An acquisition that only refuses a lock that is in_progress.            *)
acquire_replan_lock_unless_busy(gs, group_id) ==
    IF gs[group_id].replan_status # "in_progress"
    THEN [acquired |-> TRUE, groups |-> [gs EXCEPT ![group_id].replan_status = "in_progress"]]
    ELSE [acquired |-> FALSE, groups |-> gs]

(* acquire_replan_lock: one conditional update idle -> in_progress.        *)
acquire_replan_lock(gs, group_id) ==
    IF gs[group_id].replan_status = "idle"
    THEN [acquired |-> TRUE, groups |-> [gs EXCEPT ![group_id].replan_status = "in_progress"]]
    ELSE [acquired |-> FALSE, groups |-> gs]

(* A release that ignores the failed flag.                                 *)
release_replan_lock_always_idle(gs, group_id, failed) ==
    [gs EXCEPT ![group_id].replan_status = "idle"]

(* release_replan_lock: unconditional update.                              *)
release_replan_lock(gs, group_id, failed) ==
    [gs EXCEPT ![group_id].replan_status = IF failed THEN "failed" ELSE "idle"]

(* trigger_replan, lines 153-163: the group's active targets that have an  *)
(* active plan, with the first such plan, as loaded by the reload.         *)
RECURSIVE ReplanTodo(_, _, _, _)
ReplanTodo(t, tg, ps, group_id) ==
    IF t > Len(tg) THEN <<>>
    ELSE (IF tg[t].group_id = group_id /\ tg[t].status = "active"
             /\ ActivePlansOf(ps, t) # {}
          THEN <<[target_id |-> t,
                  plan_id |-> CHOOSE i \in ActivePlansOf(ps, t) :
                                 \A j \in ActivePlansOf(ps, t) : i <= j]>>
          ELSE <<>>)
         \o ReplanTodo(t + 1, tg, ps, group_id)

(* trigger_replan, lines 131-149: take the lock or return, then reload.    *)
trigger_replan(p) ==
    LET pr == procs[p]
        lock == acquire_replan_lock(groups, pr.group_id)
    IN  /\ pr.pc = "replan"
        /\ groups' = lock.groups
        /\ IF ~lock.acquired
           THEN procs' = [procs EXCEPT ![p] = Returned("skipped")]
           ELSE procs' = [procs EXCEPT ![p] =
                            [pr EXCEPT !.pc = "replan_loop",
                                       !.replan_from = _next_monday(now),
                                       !.todo = ReplanTodo(1, targets, plans, pr.group_id)]]
        /\ UNCHANGED <<now, targets, plans, changes, wizards>>

(* A window test that also gives up when the group ends on the boundary.   *)
WindowExhausted_inclusive(group, replan_from) ==
    group.end_date # None /\ replan_from >= group.end_date

(* trigger_replan, lines 174: no future week is left in the group window.  *)
WindowExhausted(group, replan_from) ==
    group.end_date # None /\ replan_from > group.end_date

(* trigger_replan, lines 165-197: supersede the target's future tasks,     *)
(* then cancel the old plan or call the generator.                         *)
ReplanTarget(p) ==
    LET pr == procs[p]
        item == Head(pr.todo)
        superseded == _supersede_future_tasks(plans, item.plan_id, now)
    IN  /\ pr.pc = "replan_loop" /\ pr.todo # <<>>
        /\ IF WindowExhausted(groups[pr.group_id], pr.replan_from)
           THEN /\ plans' = [superseded EXCEPT ![item.plan_id].status = "cancelled"]
                /\ procs' = [procs EXCEPT ![p] = [pr EXCEPT !.todo = Tail(@)]]
           ELSE /\ plans' = superseded
                /\ procs' = [procs EXCEPT ![p] =
                               [pr EXCEPT !.pc = "gen_llm",
                                          !.target_id = item.target_id,
                                          !.active_plan = item.plan_id]]
        /\ UNCHANGED <<now, targets, groups, changes, wizards>>

(* POST /plans/generate up to the LLM call.                                *)
StartGenerate(p, t) ==
    /\ procs[p].pc = "idle"
    /\ procs' = [procs EXCEPT ![p] =
                   [IdleProc EXCEPT !.pc = "gen_llm", !.op = "generate",
                                            !.target_id = t]]
    /\ UNCHANGED <<now, targets, plans, groups, changes, wizards>>

Generating == {p \in ProcIds : procs[p].pc \in {"gen_deactivate", "gen_create"}}

(* generate_plan, lines 123-142: the LLM answers with a plan.              *)
LLMAnswers(p, weeks) ==
    /\ procs[p].pc = "gen_llm"
    /\ Len(plans) + Cardinality(Generating) < MaxLivePlans
    /\ procs' = [procs EXCEPT ![p] = [@ EXCEPT !.pc = "gen_deactivate", !.weeks = weeks]]
    /\ UNCHANGED <<now, targets, plans, groups, changes, wizards>>

(* A failure path that stamps the change as if the re-plan had completed.  *)
LLMFails_stamping_change(p) ==
    /\ procs[p].pc = "gen_llm"
    /\ procs' = [procs EXCEPT ![p] = Returned("raised")]
    /\ groups' = IF procs[p].op = "generate" THEN groups
                 ELSE release_replan_lock(groups, procs[p].group_id, TRUE)
    /\ changes' = IF procs[p].op = "generate" THEN changes
                  ELSE [changes EXCEPT ![procs[p].change_id].triggered_replan_at = now]
    /\ UNCHANGED <<now, targets, plans, wizards>>

(* generate_plan raises; trigger_replan, lines 224-226, releases the lock  *)
(* as failed and re-raises.                                                *)
LLMFails(p) ==
    /\ procs[p].pc = "gen_llm"
    /\ procs' = [procs EXCEPT ![p] = Returned("raised")]
    /\ groups' = IF procs[p].op = "generate" THEN groups
                 ELSE release_replan_lock(groups, procs[p].group_id, TRUE)
    /\ UNCHANGED <<now, targets, plans, changes, wizards>>

(* generate_plan, lines 153-159 (deactivate_existing defaults to True).    *)
GenDeactivate(p) ==
    /\ procs[p].pc = "gen_deactivate"
    /\ plans' = DeactivateExisting(plans, procs[p].target_id)
    /\ procs' = [procs EXCEPT ![p] = [@ EXCEPT !.pc = "gen_create"]]
    /\ UNCHANGED <<now, targets, groups, changes, wizards>>

(* The dates a client sends with POST /plans/generate.                     *)
LiveWindow == [start_date |-> 0, end_date |-> 13]

(* generate_plan, lines 161-219: the live call stores an active plan, the  *)
(* re-plan a draft over [replan_from, group end date].                     *)
GenCreate(p) ==
    LET pr == procs[p]
    IN  /\ pr.pc = "gen_create"
        /\ IF pr.op = "generate"
           THEN /\ plans' = Append(plans, NewPlan(pr.target_id, LiveWindow.start_date,
                                                  LiveWindow.end_date, "active", pr.weeks))
                /\ procs' = [procs EXCEPT ![p] = Returned("ok")]
           ELSE /\ plans' = Append(plans,
                      NewPlan(pr.target_id, pr.replan_from,
                              IF groups[pr.group_id].end_date # None
                              THEN groups[pr.group_id].end_date
                              ELSE plans[pr.active_plan].end_date,
                              "draft", pr.weeks))
                /\ procs' = [procs EXCEPT ![p] =
                               [pr EXCEPT !.pc = "replan_swap", !.new_plan = Len(plans) + 1]]
        /\ UNCHANGED <<now, targets, groups, changes, wizards>>

(* A swap that leaves the new plan at the version the generator gave it.  *)
SwapPlans_keeping_version(ps, old, new, group_id) ==
    [ps EXCEPT ![new] = [@ EXCEPT !.group_id = group_id, !.status = "active"],
               ![old] = [@ EXCEPT !.status = "cancelled", !.superseded_by_id = new]]

(* trigger_replan, lines 198-212: version, group link and the swap.        *)
SwapPlans(ps, old, new, group_id) ==
    [ps EXCEPT ![new] = [@ EXCEPT !.version = ps[old].version + 1,
                                  !.group_id = group_id,
                                  !.status = "active"],
               ![old] = [@ EXCEPT !.status = "cancelled",
                                  !.superseded_by_id = new]]

ReplanSwap(p) ==
    LET pr == procs[p]
    IN  /\ pr.pc = "replan_swap"
        /\ plans' = SwapPlans(plans, pr.active_plan, pr.new_plan, pr.group_id)
        /\ procs' = [procs EXCEPT ![p] =
                       [pr EXCEPT !.pc = "replan_loop", !.todo = Tail(@),
                                  !.new_plan_ids = Append(@, pr.new_plan)]]
        /\ UNCHANGED <<now, targets, groups, changes, wizards>>

(* trigger_replan, lines 214-222: completion on the change, lock released. *)
ReplanFinish(p) ==
    LET pr == procs[p]
    IN  /\ pr.pc = "replan_loop" /\ pr.todo = <<>>
        /\ changes' = [changes EXCEPT ![pr.change_id] =
                         [@ EXCEPT !.triggered_replan_at = now,
                                   !.replan_plan_id = IF pr.new_plan_ids # <<>>
                                                      THEN Head(pr.new_plan_ids) ELSE @]]
        /\ groups' = release_replan_lock(groups, pr.group_id, FALSE)
        /\ procs' = [procs EXCEPT ![p] = Returned("ok")]
        /\ UNCHANGED <<now, targets, plans, wizards>>

(* The days on which requests are observed: a Monday, the Sunday of that   *)
(* week and the Monday after it.                                           *)
Instants == {0, 6, 7}

(* The clock moves to the next observed day.                               *)
Tick ==
    /\ \E d \in Instants : d > now
    /\ now' = CHOOSE d \in Instants : d > now /\ \A e \in Instants : e > now => d <= e
    /\ UNCHANGED <<targets, plans, groups, changes, wizards, procs>>

----------------------------------------------------------------------------
(* Creation requests: create_wizard split at the await between its check   *)
(* and its insert, and the direct creation of a GoalGroup.                 *)

PendingCreates == {p \in ProcIds : procs[p].pc = "create_wizard"}

(* create_wizard, lines 44-49: the query for an active wizard.             *)
StartCreateWizard(p, go_getter_id) ==
    /\ procs[p].pc = "idle"
    /\ Len(wizards) + Cardinality(PendingCreates) < MaxCreated
    /\ procs' = [procs EXCEPT ![p] =
                   IF create_wizardError(wizards, go_getter_id) # "ok"
                   THEN Returned(create_wizardError(wizards, go_getter_id))
                   ELSE [IdleProc EXCEPT !.pc = "create_wizard", !.op = "create_wizard",
                                         !.go_getter_id = go_getter_id]]
    /\ UNCHANGED <<now, targets, plans, groups, changes, wizards>>

(* create_wizard, lines 50-53: the insert.                                 *)
InsertWizard(p) ==
    /\ procs[p].pc = "create_wizard"
    /\ wizards' = Append(wizards, NewWizard(procs[p].go_getter_id, now + WIZARD_TTL_DAYS))
    /\ procs' = [procs EXCEPT ![p] = Returned("ok")]
    /\ UNCHANGED <<now, targets, plans, groups, changes>>

(* POST /goal-groups: the group is inserted without a look at the groups   *)
(* the go-getter already has.                                              *)
create_goal_group(go_getter_id, title, start_date, end_date) ==
    /\ Len(groups) < MaxGroups
    /\ groups' = Append(groups, NewGroup(go_getter_id, title, start_date, end_date))
    /\ UNCHANGED <<now, targets, plans, changes, wizards, procs>>

----------------------------------------------------------------------------
(* Inputs of the wizard handlers                                           *)

ScopeInputs == {<<0, 5>>, <<0, 6>>, <<0, 7>>}

(* The subcategory a client sends with a target spec; set_targets ignores  *)
(* it (the MCP tool always sends 0).                                       *)
ClientSubcategory == 0

ClientSpec(t) ==
    [target_id |-> t, subcategory_id |-> ClientSubcategory, priority |-> DEFAULT_PRIORITY]

(* Target lists a client sends: empty, own targets, two targets of one     *)
(* subcategory, one target twice, and lists holding a foreign target or a  *)
(* target id that is not in the store.                                     *)
TargetSpecInputs ==
    {specs \in SeqsUpTo({ClientSpec(t) : t \in TargetIds \cup {Cardinality(TargetIds) + 1}},
                        MaxSpecs) :
        \/ Len(specs) <= 1
        \/ <<specs[1].target_id, specs[2].target_id>>
              \in {<<1, 2>>, <<3, 3>>, <<1, 4>>, <<1, Cardinality(TargetIds) + 1>>}}

ConstraintInputs ==
    {(IntKey(1) :> [daily_minutes |-> 130, preferred_days |-> 2])}

AdjustSpec(t, sub) == [target_id |-> t, subcategory_id |-> sub, priority |-> DEFAULT_PRIORITY]

AdjustPatches ==
    {[has_target_specs |-> FALSE, target_specs |-> <<>>,
      has_constraints |-> FALSE, constraints |-> <<>>],
     [has_target_specs |-> FALSE, target_specs |-> <<>>,
      has_constraints |-> TRUE, constraints |-> (IntKey(1) :> [daily_minutes |-> 45, preferred_days |-> 5])],
     [has_target_specs |-> TRUE, target_specs |-> <<AdjustSpec(1, 1)>>,
      has_constraints |-> FALSE, constraints |-> <<>>],
     [has_target_specs |-> TRUE, target_specs |-> <<AdjustSpec(3, None)>>,
      has_constraints |-> FALSE, constraints |-> <<>>]}

(* Go-getters that start wizards; go-getter 2 only owns a foreign target.  *)
WizardGoGetters == {1}

GenOutcomeSeqs(n) == [1 .. n -> GenOutcomes]

----------------------------------------------------------------------------
(* The store the wizard specification starts from: four targets, and       *)
(* possibly a live active plan generated earlier for target 1.             *)

InitTargets ==
    <<[go_getter_id |-> 1, subcategory_id |-> 1, status |-> "active", group_id |-> None],
      [go_getter_id |-> 1, subcategory_id |-> 1, status |-> "active", group_id |-> None],
      [go_getter_id |-> 1, subcategory_id |-> None, status |-> "active", group_id |-> None],
      [go_getter_id |-> 2, subcategory_id |-> 2, status |-> "active", group_id |-> None]>>

LivePlan(target_id) == NewPlan(target_id, 0, 20, "active", 3)

InitWizard ==
    /\ now = 0
    /\ targets = InitTargets
    /\ plans \in {<<>>, <<LivePlan(1)>>}
    /\ groups = <<>>
    /\ changes = <<>>
    /\ wizards = <<>>
    /\ procs = [p \in ProcIds |-> IdleProc]

NextWizard ==
    \/ \E g \in WizardGoGetters : create_wizard(g)
    \/ \E w \in DOMAIN wizards, d \in ScopeInputs : set_scope(w, "Summer", d[1], d[2])
    \/ \E w \in DOMAIN wizards, specs \in TargetSpecInputs : set_targets(w, specs)
    \/ \E w \in DOMAIN wizards, c \in ConstraintInputs :
          \E outs \in GenOutcomeSeqs(Len(wizards[w].target_specs)) :
             set_constraints(w, c, outs)
    \/ \E w \in DOMAIN wizards : run_feasibility(w)
    \/ \E w \in DOMAIN wizards, patch \in AdjustPatches :
          \E outs \in GenOutcomeSeqs(Len(Patched(wizards[w], patch).target_specs)) :
             adjust(w, patch, outs)
    \/ \E w \in DOMAIN wizards : confirm(w)
    \/ \E w \in DOMAIN wizards : cancel_wizard(w)

SpecWizard == InitWizard /\ [][NextWizard]_vars

----------------------------------------------------------------------------
(* Feasibility engine on its own: the wizard row is drawn from the rows    *)
(* check_feasibility accepts (any dates, any stored target list), the      *)
(* store may hold a live plan and an active group, and run_feasibility     *)
(* applies the engine to it.                                               *)

FeasibilityDates ==
    {<<None, None>>, <<0, None>>, <<0, 5>>, <<0, 6>>, <<0, 7>>, <<0, 8>>, <<3, 3>>}

(* The target lists set_targets can have stored for go-getter 1.           *)
FeasibilitySpecs ==
    {NormalizeSpecs(specs, NewWizard(1, None), InitTargets).specs :
        specs \in {s \in TargetSpecInputs :
                     NormalizeSpecs(s, NewWizard(1, None), InitTargets).error = "ok"}}

(* daily_minutes values around the defaults and the ceiling.               *)
FeasibilityMinutes == {60, 61, 120, 121}

FeasibilityConstraints ==
    {<<>>} \cup {StrKeys(c) : c \in ConstraintInputs}
    \cup {(Str(1) :> [daily_minutes |-> m, preferred_days |-> 7]) : m \in FeasibilityMinutes}

(* A third target of go-getter 1 in subcategory 1; with it the store can   *)
(* hold two live plans of that subcategory on targets other than target 2. *)
ThirdTarget ==
    [go_getter_id |-> 1, subcategory_id |-> 1, status |-> "active", group_id |-> None]

FeasibilityStores ==
    {[targets |-> InitTargets, plans |-> <<>>],
     [targets |-> InitTargets, plans |-> <<LivePlan(1)>>],
     [targets |-> Append(InitTargets, ThirdTarget),
      plans |-> <<LivePlan(1), LivePlan(Len(InitTargets) + 1)>>]}

InitFeasibility ==
    /\ now = 0
    /\ \E store \in FeasibilityStores : targets = store.targets /\ plans = store.plans
    /\ groups \in {<<>>, <<NewGroup(1, "Summer", 0, 13)>>}
    /\ changes = <<>>
    /\ \E d \in FeasibilityDates, specs \in FeasibilitySpecs, c \in FeasibilityConstraints :
          wizards = <<[NewWizard(1, WIZARD_TTL_DAYS) EXCEPT
                         !.status = "collecting_constraints",
                         !.start_date = d[1], !.end_date = d[2],
                         !.target_specs = specs, !.constraints = c]>>
    /\ procs = [p \in ProcIds |-> IdleProc]

NextFeasibility == \E w \in DOMAIN wizards : run_feasibility(w)

SpecFeasibility == InitFeasibility /\ [][NextFeasibility]_vars

----------------------------------------------------------------------------
(* The store the re-planning specification starts from: a confirmed group  *)
(* of go-getter 1 holding target 1 with its active plan, and a live plan   *)
(* of target 3, which is in no group.                                      *)

LiveTargets == {1}

(* The group ends on the second Monday or on the Sunday after it.          *)
ReplanGroupEnds == {7, 13}

InitReplan ==
    /\ now = 0
    /\ targets = [InitTargets EXCEPT ![1].group_id = 1]
    /\ \E end_date \in ReplanGroupEnds :
          /\ plans = <<[NewPlan(1, 0, end_date, "active", 2) EXCEPT !.group_id = 1],
                       NewPlan(3, 0, 13, "active", 2)>>
          /\ groups = <<NewGroup(1, "Summer", 0, end_date)>>
    /\ changes = <<>>
    /\ wizards = <<>>
    /\ procs = [p \in ProcIds |-> IdleProc]

NextReplan ==
    \/ Tick
    \/ \E p \in ProcIds, g \in DOMAIN groups, t \in TargetIds : StartAddTarget(p, g, t)
    \/ \E p \in ProcIds, g \in DOMAIN groups, t \in TargetIds : StartRemoveTarget(p, g, t)
    \/ \E p \in ProcIds : add_target_to_group(p)
    \/ \E p \in ProcIds : remove_target_from_group(p)
    \/ \E p \in ProcIds : trigger_replan(p)
    \/ \E p \in ProcIds : ReplanTarget(p)
    \/ \E p \in ProcIds, t \in LiveTargets : StartGenerate(p, t)
    \/ \E p \in ProcIds, weeks \in 1 .. MaxWeeks : LLMAnswers(p, weeks)
    \/ \E p \in ProcIds : LLMFails(p)
    \/ \E p \in ProcIds : GenDeactivate(p)
    \/ \E p \in ProcIds : GenCreate(p)
    \/ \E p \in ProcIds : ReplanSwap(p)
    \/ \E p \in ProcIds : ReplanFinish(p)

SpecReplan == InitReplan /\ [][NextReplan]_vars

----------------------------------------------------------------------------
(* Subcategory exclusivity: the store holds two targets of go-getter 1 in  *)
(* subcategory 1 and no plan yet; live plans are generated for them while  *)
(* a wizard is filled in and confirmed.                                    *)

ExclusiveTargets == {1, 2}

InitExclusive ==
    /\ now = 0
    /\ targets = InitTargets
    /\ plans = <<>>
    /\ groups = <<>>
    /\ changes = <<>>
    /\ wizards = <<>>
    /\ procs = [p \in ProcIds |-> IdleProc]

(* The wizard asks for a plan of one of the two targets.                   *)
ExclusiveSpecInputs == {<<ClientSpec(t)>> : t \in ExclusiveTargets}

NextExclusive ==
    \/ \E p \in ProcIds, t \in ExclusiveTargets : StartGenerate(p, t)
    \/ \E p \in ProcIds, weeks \in 1 .. MaxWeeks : LLMAnswers(p, weeks)
    \/ \E p \in ProcIds : LLMFails(p)
    \/ \E p \in ProcIds : GenDeactivate(p)
    \/ \E p \in ProcIds : GenCreate(p)
    \/ \E g \in WizardGoGetters : create_wizard(g)
    \/ \E w \in DOMAIN wizards, d \in ScopeInputs : set_scope(w, "Summer", d[1], d[2])
    \/ \E w \in DOMAIN wizards, specs \in ExclusiveSpecInputs : set_targets(w, specs)
    \/ \E w \in DOMAIN wizards, c \in ConstraintInputs :
          \E outs \in GenOutcomeSeqs(Len(wizards[w].target_specs)) :
             set_constraints(w, c, outs)
    \/ \E w \in DOMAIN wizards : confirm(w)

SpecExclusive == InitExclusive /\ [][NextExclusive]_vars

----------------------------------------------------------------------------
(* Wizard requests split at their awaits, and the expiry janitor.  A       *)
(* request holds the wizard it loaded; its writes go through               *)
(* update_wizard, which sets the given columns whatever the row holds.     *)
(* One request at a time works on a wizard; the janitor runs at any time.  *)

WizardInFlight(w) == \E p \in ProcIds : procs[p].wizard_id = w

(* set_constraints up to the first generate_plan call: lines 135-142 and   *)
(* _generate_and_check lines 352-354.                                      *)
StartSetConstraints(p, w, constraints) ==
    /\ procs[p].pc = "idle" /\ ~WizardInFlight(w)
    /\ Len(plans) + Len(wizards[w].target_specs) <= MaxPlans
    /\ IF set_constraintsError(wizards[w]) # "ok"
       THEN /\ procs' = [procs EXCEPT ![p] = Returned("terminal")]
            /\ UNCHANGED wizards
       ELSE /\ wizards' = [wizards EXCEPT ![w] =
                             [@ EXCEPT !.constraints = StrKeys(constraints),
                                       !.status = "generating_plans",
                                       !.generation_errors = <<>>]]
            /\ procs' = [procs EXCEPT ![p] =
                           [IdleProc EXCEPT !.pc = "wiz_generate", !.op = "set_constraints",
                                            !.wizard_id = w]]
    /\ UNCHANGED <<now, targets, plans, groups, changes>>

(* adjust, lines 174-185: the patch is stored with status adjusting.       *)
StartAdjust(p, w, patch) ==
    /\ procs[p].pc = "idle" /\ ~WizardInFlight(w)
    /\ Len(plans) + Len(Patched(wizards[w], patch).target_specs) <= MaxPlans
    /\ IF adjustError(wizards[w]) # "ok"
       THEN /\ procs' = [procs EXCEPT ![p] = Returned("terminal")]
            /\ UNCHANGED wizards
       ELSE /\ wizards' = [wizards EXCEPT ![w] = Patched(wizards[w], patch)]
            /\ procs' = [procs EXCEPT ![p] =
                           [IdleProc EXCEPT !.pc = "wiz_cancel", !.op = "adjust",
                                            !.wizard_id = w]]
    /\ UNCHANGED <<now, targets, plans, groups, changes>>

(* adjust, lines 187-191, and _generate_and_check lines 352-354: the old   *)
(* drafts are cancelled and the list is emptied.                           *)
AdjustCancel(p) ==
    LET w == procs[p].wizard_id
    IN  /\ procs[p].pc = "wiz_cancel"
        /\ plans' = _cancel_draft_plans(plans, wizards[w])
        /\ wizards' = [wizards EXCEPT ![w] =
                         [@ EXCEPT !.draft_plan_ids = <<>>,
                                   !.status = "generating_plans",
                                   !.generation_errors = <<>>]]
        /\ procs' = [procs EXCEPT ![p] = [@ EXCEPT !.pc = "wiz_generate"]]
        /\ UNCHANGED <<now, targets, groups, changes>>

(* _generate_and_check, lines 356-417: the drafts are generated, the list  *)
(* and the feasibility result are stored with status feasibility_check.    *)
GenerateAndCheck(p, outs) ==
    LET w == procs[p].wizard_id
    IN  /\ procs[p].pc = "wiz_generate"
        /\ _generate_and_check(w, wizards[w], plans, outs)
        /\ procs' = [procs EXCEPT ![p] = Returned("ok")]
        /\ UNCHANGED <<now, targets, groups, changes>>

(* confirm, lines 202-239: the checks, then the GoalGroup is created.      *)
StartConfirm(p, w) ==
    /\ procs[p].pc = "idle" /\ ~WizardInFlight(w)
    /\ IF confirmError(wizards[w], groups) # "ok"
       THEN /\ procs' = [procs EXCEPT ![p] = Returned(confirmError(wizards[w], groups))]
            /\ UNCHANGED groups
       ELSE /\ groups' = Append(groups,
                   NewGroup(wizards[w].go_getter_id,
                            IF wizards[w].group_title = "" THEN "My Goal Group"
                            ELSE wizards[w].group_title,
                            wizards[w].start_date, wizards[w].end_date))
            /\ procs' = [procs EXCEPT ![p] =
                           [IdleProc EXCEPT !.pc = "wiz_confirm", !.op = "confirm",
                                            !.wizard_id = w,
                                            !.group_id = Len(groups) + 1]]
    /\ UNCHANGED <<now, targets, plans, wizards, changes>>

(* confirm, lines 241-281: the drafts are activated and linked, the wizard *)
(* is stored as confirmed.                                                 *)
FinishConfirm(p) ==
    LET w == procs[p].wizard_id
        done == ActivateDrafts(wizards[w].draft_plan_ids,
                    [plans |-> plans, targets |-> targets, linked |-> {}],
                    procs[p].group_id)
    IN  /\ procs[p].pc = "wiz_confirm"
        /\ plans' = done.plans
        /\ targets' = done.targets
        /\ wizards' = [wizards EXCEPT ![w] =
                         [@ EXCEPT !.goal_group_id = procs[p].group_id,
                                   !.status = "confirmed"]]
        /\ procs' = [procs EXCEPT ![p] = Returned("ok")]
        /\ UNCHANGED <<now, groups, changes>>

Stale(wizard, today) == wizard.expires_at < today /\ wizard.status \notin _TERMINAL

(* expire_stale: one UPDATE over the stale wizards.                        *)
expire_stale ==
    /\ \E w \in DOMAIN wizards : Stale(wizards[w], now)
    /\ wizards' = [w \in DOMAIN wizards |->
                     IF Stale(wizards[w], now)
                     THEN [wizards[w] EXCEPT !.status = "cancelled"]
                     ELSE wizards[w]]
    /\ UNCHANGED <<now, targets, plans, groups, changes, procs>>

SweepSpecInputs == {<<ClientSpec(t)>> : t \in {1, 3}}

InitSweep ==
    /\ now = 0
    /\ targets = InitTargets
    /\ plans = <<>>
    /\ groups = <<>>
    /\ changes = <<>>
    /\ wizards = <<>>
    /\ procs = [p \in ProcIds |-> IdleProc]

NextSweep ==
    \/ Tick
    \/ expire_stale
    \/ \E g \in WizardGoGetters : create_wizard(g)
    \/ \E w \in DOMAIN wizards, d \in ScopeInputs :
          ~WizardInFlight(w) /\ set_scope(w, "Summer", d[1], d[2])
    \/ \E w \in DOMAIN wizards, specs \in SweepSpecInputs :
          ~WizardInFlight(w) /\ set_targets(w, specs)
    \/ \E w \in DOMAIN wizards : ~WizardInFlight(w) /\ cancel_wizard(w)
    \/ \E p \in ProcIds, w \in DOMAIN wizards, c \in ConstraintInputs :
          StartSetConstraints(p, w, c)
    \/ \E p \in ProcIds, w \in DOMAIN wizards, patch \in AdjustPatches :
          StartAdjust(p, w, patch)
    \/ \E p \in ProcIds : AdjustCancel(p)
    \/ \E p \in ProcIds :
          \E outs \in GenOutcomeSeqs(
                 IF procs[p].wizard_id \in DOMAIN wizards
                 THEN Len(wizards[procs[p].wizard_id].target_specs) ELSE 0) :
             GenerateAndCheck(p, outs)
    \/ \E p \in ProcIds, w \in DOMAIN wizards : StartConfirm(p, w)
    \/ \E p \in ProcIds : FinishConfirm(p)

SpecSweep == InitSweep /\ [][NextSweep]_vars

----------------------------------------------------------------------------
(* A wizard of a go-getter for whom a GoalGroup may be created directly    *)
(* (POST /goal-groups) before the wizard is confirmed, and whose client    *)
(* may send with POST /wizards/{id}/adjust a target of another go-getter   *)
(* or a subcategory that is not the target's.                              *)

GroupedPatches ==
    {[has_target_specs |-> TRUE, target_specs |-> <<AdjustSpec(t[1], t[2])>>,
      has_constraints |-> FALSE, constraints |-> <<>>] :
        t \in {<<1, 1>>, <<1, 2>>, <<4, 2>>}}

InitGrouped ==
    /\ now = 0
    /\ targets = InitTargets
    /\ plans = <<>>
    /\ groups = <<>>
    /\ changes = <<>>
    /\ wizards = <<>>
    /\ procs = [p \in ProcIds |-> IdleProc]

GroupedSpecInputs == {<<ClientSpec(t)>> : t \in {1, 3}}

NextGrouped ==
    \/ \E g \in WizardGoGetters : create_goal_group(g, "Spring", 0, 13)
    \/ \E g \in WizardGoGetters : create_wizard(g)
    \/ \E w \in DOMAIN wizards, d \in ScopeInputs : set_scope(w, "Summer", d[1], d[2])
    \/ \E w \in DOMAIN wizards, specs \in GroupedSpecInputs : set_targets(w, specs)
    \/ \E w \in DOMAIN wizards, c \in ConstraintInputs :
          \E outs \in GenOutcomeSeqs(Len(wizards[w].target_specs)) :
             set_constraints(w, c, outs)
    \/ \E w \in DOMAIN wizards : run_feasibility(w)
    \/ \E w \in DOMAIN wizards, patch \in GroupedPatches :
          \E outs \in GenOutcomeSeqs(Len(Patched(wizards[w], patch).target_specs)) :
             adjust(w, patch, outs)
    \/ \E w \in DOMAIN wizards : confirm(w)

SpecGrouped == InitGrouped /\ [][NextGrouped]_vars

----------------------------------------------------------------------------
(* The creation specification starts from the empty store of InitWizard.   *)

InitCreate ==
    /\ now = 0
    /\ targets = InitTargets
    /\ plans = <<>>
    /\ groups = <<>>
    /\ changes = <<>>
    /\ wizards = <<>>
    /\ procs = [p \in ProcIds |-> IdleProc]

NextCreate ==
    \/ Tick
    \/ \E p \in ProcIds, g \in GoGetterIds : StartCreateWizard(p, g)
    \/ \E p \in ProcIds : InsertWizard(p)
    \/ \E w \in DOMAIN wizards : cancel_wizard(w)
    \/ \E g \in GoGetterIds, d \in ScopeInputs : create_goal_group(g, "Summer", d[1], d[2])

SpecCreate == InitCreate /\ [][NextCreate]_vars

----------------------------------------------------------------------------
(* Properties of the re-planning orchestrator (checked under SpecReplan).  *)

(* The requests that hold the re-plan lock of group g: between a           *)
(* successful acquire_replan_lock and the release.                         *)
ReplanHolders(g) ==
    {p \in ProcIds : /\ procs[p].group_id = g
                     /\ procs[p].op \in {"add_target", "remove_target"}
                     /\ procs[p].pc \in {"replan_loop", "gen_llm", "gen_deactivate",
                                         "gen_create", "replan_swap"}}

C1_BusyTriggerIsNoOp ==
    \A p \in ProcIds :
        (/\ procs[p].pc = "replan"
         /\ procs'[p] # procs[p]
         /\ groups[procs[p].group_id].replan_status = "in_progress")
        => /\ plans' = plans
           /\ changes' = changes
           /\ groups' = groups
           /\ targets' = targets
           /\ procs'[p] = Returned("skipped")

(* C1: for every group at most one trigger_replan invocation is between a  *)
(* successful acquire_replan_lock and its release, and an invocation that  *)
(* arrives while replan_status = in_progress returns as a no-op: no task,  *)
(* plan, GoalGroupChange or replan_status is modified and no error raised. *)
C1_AtMostOneReplan ==
    /\ [](\A g \in DOMAIN groups : Cardinality(ReplanHolders(g)) <= 1)
    /\ [][C1_BusyTriggerIsNoOp]_vars

(* One request holds the lock while another has found it taken.            *)
C1_Witness ==
    \E p, q \in ProcIds :
        /\ p \in ReplanHolders(1)
        /\ groups[1].replan_status = "in_progress"
        /\ procs[q].outcome = "skipped"

(* C2: after any interleaving of live generate_plan, add_target,           *)
(* remove_target and trigger_replan operations, at most one Plan of each   *)
(* Target has status active.                                               *)
C2_SingleActivePlan ==
    \A t \in TargetIds : Cardinality(ActivePlansOf(plans, t)) <= 1

(* The Monday that begins the ISO week after the week of day d.            *)
NextIsoWeekStart(d) == CHOOSE m \in (d + 1) .. (d + 7) : m % 7 = 0

(* C3: re-planning (trigger_replan and the superseding of remove_target)   *)
(* never changes the status of a task whose milestone starts before the    *)
(* Monday that begins the next ISO week relative to now, on every weekday  *)
(* on which it runs, a Monday included.                                    *)
C3_CurrentWeekFrozen ==
    [][\A i \in DOMAIN plans : \A k \in DOMAIN plans[i].milestones :
          plans[i].milestones[k].start_date < NextIsoWeekStart(now)
          => plans'[i].milestones[k].tasks = plans[i].milestones[k].tasks]_vars

(* A re-plan that ran on a Monday superseded the tasks of next week and    *)
(* left the tasks of the week that starts that Monday active.              *)
C3_Witness ==
    /\ weekday(now) = 0
    /\ \E i \in DOMAIN plans : \E k, l \in DOMAIN plans[i].milestones :
          /\ plans[i].milestones[k].start_date = now
          /\ plans[i].milestones[k].tasks = <<"active">>
          /\ plans[i].milestones[l].start_date = now + 7
          /\ plans[i].milestones[l].tasks = <<"superseded">>

(* C4: any two GoalGroupChange records of one group are at least 7 days    *)
(* apart, also when the two edits are issued concurrently.                 *)
C4_ChangesSevenDaysApart ==
    \A i, j \in DOMAIN changes :
        (i < j /\ changes[i].group_id = changes[j].group_id)
        => changes[j].created_at - changes[i].created_at >= _CHANGE_COOLDOWN_DAYS

C10_ReleaseOnReturn ==
    \A p \in ProcIds :
        (p \in ReplanHolders(procs[p].group_id) /\ procs'[p].pc = "idle")
        => /\ procs'[p].outcome \in {"ok", "raised"}
           /\ procs'[p].outcome = "ok"
              => groups'[procs[p].group_id].replan_status = "idle"
           /\ procs'[p].outcome = "raised"
              => groups'[procs[p].group_id].replan_status = "failed"
           /\ procs[p].pc = "gen_llm" => procs'[p].outcome = "raised"

(* C10: an invocation that acquired the lock ends with replan_status idle  *)
(* when it completes without exception and failed when an exception was    *)
(* raised, which is re-raised to the caller; replan_status is in_progress  *)
(* only while an invocation holds the lock.                                *)
C10_LockReleased ==
    /\ [][C10_ReleaseOnReturn]_vars
    /\ [](\A g \in DOMAIN groups :
             groups[g].replan_status = "in_progress" => ReplanHolders(g) # {})

(* A re-plan whose generator raised has returned the error and left the    *)
(* lock failed.                                                            *)
C10_Witness ==
    \E p \in ProcIds :
        /\ procs[p].outcome = "raised"
        /\ groups[1].replan_status = "failed"
        /\ changes # <<>>

----------------------------------------------------------------------------
(* Properties of the wizard orchestrator (checked under SpecWizard).       *)

(* A step of one of the operations of wizard w.                            *)
WizardOperation(w) ==
    \/ \E d \in ScopeInputs : set_scope(w, "Summer", d[1], d[2])
    \/ \E specs \in TargetSpecInputs : set_targets(w, specs)
    \/ \E c \in ConstraintInputs :
          \E outs \in GenOutcomeSeqs(Len(wizards[w].target_specs)) :
             set_constraints(w, c, outs)
    \/ run_feasibility(w)
    \/ \E patch \in AdjustPatches :
          \E outs \in GenOutcomeSeqs(Len(Patched(wizards[w], patch).target_specs)) :
             adjust(w, patch, outs)
    \/ confirm(w)
    \/ cancel_wizard(w)

C5_TerminalErrors ==
    \A w \in DOMAIN wizards :
        wizards[w].status \in _TERMINAL
        => /\ \A d \in ScopeInputs : set_scopeError(wizards[w], d[1], d[2]) = "terminal"
           /\ \A specs \in TargetSpecInputs :
                 set_targetsError(wizards[w], specs, targets) = "terminal"
           /\ set_constraintsError(wizards[w]) = "terminal"
           /\ run_feasibilityError(wizards[w]) = "terminal"
           /\ adjustError(wizards[w]) = "terminal"
           /\ confirmError(wizards[w], groups) = "terminal"

C5_TerminalFrame ==
    \A w \in DOMAIN wizards :
        (wizards[w].status \in _TERMINAL /\ WizardOperation(w))
        => UNCHANGED <<wizards, plans, targets, groups>>

(* C5: once a wizard is confirmed, cancelled or failed, set_scope,         *)
(* set_targets, set_constraints, run_feasibility, adjust and confirm fail  *)
(* with the terminal-state error and leave the wizard and all plans        *)
(* unchanged; cancel on it returns and changes nothing.                    *)
C5_WizardTerminality ==
    /\ []C5_TerminalErrors
    /\ [][C5_TerminalFrame]_vars

(* A cancelled wizard whose draft plans were cancelled with it.            *)
C5_Witness ==
    \E w \in DOMAIN wizards :
        /\ wizards[w].status = "cancelled"
        /\ \E k \in DOMAIN wizards[w].draft_plan_ids :
              plans[wizards[w].draft_plan_ids[k]].status = "cancelled"

(* A step of the generate-and-check sequence: set_constraints or adjust.   *)
GenerateAndCheckStep(w) ==
    \/ \E c \in ConstraintInputs :
          \E outs \in GenOutcomeSeqs(Len(wizards[w].target_specs)) :
             set_constraints(w, c, outs)
    \/ \E patch \in AdjustPatches :
          \E outs \in GenOutcomeSeqs(Len(Patched(wizards[w], patch).target_specs)) :
             adjust(w, patch, outs)

(* C6: the generate-and-check sequence run by set_constraints and adjust   *)
(* leaves every active plan active, whether generation succeeds or fails:  *)
(* a step that takes a plan out of active is no step of either operation.  *)
C6_DraftsLeaveActivePlans ==
    [][(\E i \in DOMAIN plans : plans[i].status = "active" /\ plans'[i].status # "active")
       => ~(\E w \in DOMAIN wizards : GenerateAndCheckStep(w))]_vars

(* A draft plan was generated for a target whose live plan is still active *)
C6_Witness ==
    \E w \in DOMAIN wizards : \E k \in DOMAIN wizards[w].draft_plan_ids :
        LET d == wizards[w].draft_plan_ids[k]
        IN  /\ wizards[w].status = "feasibility_check"
            /\ plans[d].status = "draft"
            /\ \E i \in DOMAIN plans :
                  /\ plans[i].status = "active"
                  /\ plans[i].target_id = plans[d].target_id

(* The wizard state in which the claim lets confirm succeed.               *)
ConfirmReady(wizard) ==
    /\ wizard.feasibility_passed = 1
    /\ wizard.generation_errors = <<>>
    /\ wizard.draft_plan_ids # <<>>

(* C7: confirm succeeds only when feasibility has been run and passed,     *)
(* generation_errors is empty and draft plans exist; otherwise it fails    *)
(* and creates no group, changes no plan, links no target and leaves the   *)
(* wizard unchanged; and recorded generation errors keep blocking confirm  *)
(* until an adjust regenerates without errors.                             *)
C7_ConfirmPreconditions ==
    [][\A w \in DOMAIN wizards :
          /\ (~ConfirmReady(wizards[w]) /\ confirm(w))
             => UNCHANGED <<wizards, plans, targets, groups>>
          /\ ~ConfirmReady(wizards[w]) => wizards'[w].status # "confirmed"
          /\ (wizards[w].generation_errors # <<>> /\ wizards'[w].generation_errors = <<>>)
             => \E patch \in AdjustPatches :
                   \E outs \in GenOutcomeSeqs(Len(Patched(wizards[w], patch).target_specs)) :
                      adjust(w, patch, outs)]_vars

(* C8: a confirm that succeeds on a wizard in feasibility_check with one   *)
(* draft plan per target spec, feasibility passed and no generation error  *)
(* creates exactly one GoalGroup with the wizard's go-getter, title and    *)
(* dates, makes every plan in draft_plan_ids active in that group, links   *)
(* each such plan's target to it and confirms the wizard with that group.  *)
C8_ConfirmEffects ==
    [][\A w \in DOMAIN wizards :
          (/\ wizards[w].status = "feasibility_check"
           /\ Len(wizards[w].draft_plan_ids) = Len(wizards[w].target_specs)
           /\ ConfirmReady(wizards[w])
           /\ wizards'[w].status = "confirmed")
          => LET g == Len(groups) + 1
             IN  /\ Len(groups') = g
                 /\ groups'[g].go_getter_id = wizards[w].go_getter_id
                 /\ groups'[g].title = wizards[w].group_title
                 /\ groups'[g].start_date = wizards[w].start_date
                 /\ groups'[g].end_date = wizards[w].end_date
                 /\ wizards'[w].goal_group_id = g
                 /\ \A k \in DOMAIN wizards[w].draft_plan_ids :
                       LET d == wizards[w].draft_plan_ids[k]
                       IN  /\ plans'[d].status = "active"
                           /\ plans'[d].group_id = g
                           /\ targets'[plans[d].target_id].group_id = g]_vars

(* Two stored target specs carry the same non-null subcategory sub.        *)
SharedSubcategories(specs) ==
    {specs[i].subcategory_id : i \in {k \in DOMAIN specs :
        /\ specs[k].subcategory_id # None
        /\ \E l \in DOMAIN specs : l # k /\ specs[l].subcategory_id = specs[k].subcategory_id}}

C9_DuplicateIsBlocking ==
    \A w \in DOMAIN wizards :
        (wizards[w].status = "feasibility_check"
         /\ SharedSubcategories(wizards[w].target_specs) # {})
        => /\ \A sub \in SharedSubcategories(wizards[w].target_specs) :
                \E k \in DOMAIN wizards[w].feasibility_risks :
                   /\ wizards[w].feasibility_risks[k].rule_code = "RULE_DUPLICATE_SUBCATEGORY"
                   /\ wizards[w].feasibility_risks[k].is_blocker
                   /\ wizards[w].feasibility_risks[k].subcategory_id = sub
           /\ wizards[w].feasibility_passed = 0
           /\ confirmError(wizards[w], groups) = "blocking_issues"

(* C9: when two stored target specs carry the same non-null subcategory,   *)
(* the feasibility result of set_constraints / adjust holds a blocking     *)
(* duplicate-subcategory error for it, feasibility_passed is false, and a  *)
(* following confirm fails on blocking issues and creates no GoalGroup.    *)
C9_DuplicateSubcategoryBlocks ==
    /\ []C9_DuplicateIsBlocking
    /\ [][\A w \in DOMAIN wizards :
             (/\ wizards[w].status = "feasibility_check"
              /\ SharedSubcategories(wizards[w].target_specs) # {}
              /\ confirm(w))
             => UNCHANGED <<wizards, plans, targets, groups>>]_vars

(* Targets 1 and 2 share subcategory 1: both drafts were generated and the *)
(* check has recorded the blocker.                                         *)
C9_Witness ==
    \E w \in DOMAIN wizards :
        /\ wizards[w].status = "feasibility_check"
        /\ Len(wizards[w].target_specs) = 2
        /\ SharedSubcategories(wizards[w].target_specs) = {1}
        /\ Len(wizards[w].draft_plan_ids) = 2
        /\ wizards[w].feasibility_passed = 0

C11_FailedTriggerIsNoOp ==
    \A g \in DOMAIN groups :
        groups[g].replan_status = "failed"
        => /\ groups'[g].replan_status = "failed"
           /\ \A p \in ProcIds :
                 (procs[p].pc = "replan" /\ procs[p].group_id = g /\ procs'[p] # procs[p])
                 => /\ plans' = plans
                    /\ changes' = changes
                    /\ procs'[p] = Returned("skipped")

(* C11: once a re-plan of a group has failed, replan_status stays failed   *)
(* (no operation moves it back to idle), no request holds the lock, and    *)
(* every later trigger_replan on the group returns without superseding     *)
(* tasks, generating plans or recording completion.                        *)
C11_FailedLockStays ==
    /\ [][C11_FailedTriggerIsNoOp]_vars
    /\ [](\A g \in DOMAIN groups :
             groups[g].replan_status = "failed" => ReplanHolders(g) = {})

(* After a failed re-plan a second edit, made once the cooldown had        *)
(* passed, was recorded and its trigger returned without a re-plan.        *)
C11_Witness ==
    /\ groups[1].replan_status = "failed"
    /\ Len(changes) = 2
    /\ changes[2].created_at - changes[1].created_at >= _CHANGE_COOLDOWN_DAYS
    /\ changes[2].triggered_replan_at = None
    /\ \E p \in ProcIds : procs[p].outcome = "skipped"
    /\ \A p \in ProcIds : procs[p].pc = "idle"

----------------------------------------------------------------------------
(* Properties of the creation requests (checked under SpecCreate).         *)

(* C12: in every reachable state each go-getter has at most one wizard     *)
(* whose status is non-terminal, also when two create calls for the same   *)
(* go-getter are interleaved.                                              *)
C12_OneActiveWizard ==
    \A g \in GoGetterIds : Cardinality(ActiveWizardsOf(wizards, g)) <= 1

(* C13: in every reachable state each go-getter has at most one GoalGroup  *)
(* with status active, after any sequence of group creations.              *)
C13_OneActiveGroup ==
    \A g \in GoGetterIds : Cardinality(ActiveGroupsOf(groups, g)) <= 1

----------------------------------------------------------------------------
(* Further properties of the wizard orchestrator (under SpecWizard).       *)

(* The status changes one operation may make in the permitted graph; the   *)
(* generate-and-check operations pass through generating_plans (and        *)
(* adjusting) inside one step and end in feasibility_check.                *)
PermittedStatusChange(old, new) ==
    \/ <<old, new>> \in {<<"collecting_scope", "collecting_targets">>,
                         <<"collecting_targets", "collecting_constraints">>,
                         <<"collecting_constraints", "generating_plans">>,
                         <<"collecting_constraints", "feasibility_check">>,
                         <<"generating_plans", "feasibility_check">>,
                         <<"feasibility_check", "adjusting">>,
                         <<"adjusting", "generating_plans">>,
                         <<"feasibility_check", "confirmed">>,
                         <<"feasibility_check", "failed">>}
    \/ old \notin _TERMINAL /\ new = "cancelled"

(* C14: every change of a wizard's status follows the permitted graph: no  *)
(* operation moves a wizard backwards, skips a step, or reaches confirmed  *)
(* from a status other than feasibility_check.                             *)
C14_StatusGraph ==
    [][\A w \in DOMAIN wizards :
          wizards'[w].status # wizards[w].status
          => PermittedStatusChange(wizards[w].status, wizards'[w].status)]_vars

----------------------------------------------------------------------------
(* Properties of the feasibility engine                                    *)

HasSpanRisk(wizard) ==
    \E i \in DOMAIN wizard.feasibility_risks :
        /\ wizard.feasibility_risks[i].rule_code = "RULE_SPAN_TOO_SHORT"
        /\ wizard.feasibility_risks[i].level = "error"
        /\ wizard.feasibility_risks[i].is_blocker

(* C15: a checked wizard with both dates set carries a blocking            *)
(* span-too-short error risk, and so feasibility_passed = 0, if and only   *)
(* if end_date - start_date is less than 7 days.                           *)
C15_SpanRule ==
    \A w \in DOMAIN wizards :
        wizards[w].status = "feasibility_check"
        /\ wizards[w].start_date # None /\ wizards[w].end_date # None
        => /\ HasSpanRisk(wizards[w]) <=> wizards[w].end_date - wizards[w].start_date < 7
           /\ \A i \in DOMAIN wizards[w].feasibility_risks :
                 wizards[w].feasibility_risks[i].rule_code = "RULE_SPAN_TOO_SHORT"
                 => wizards[w].end_date - wizards[w].start_date < 7
           /\ wizards[w].end_date - wizards[w].start_date < 7
                 => wizards[w].feasibility_passed = 0

C15_Witness ==
    \E w \in DOMAIN wizards :
        /\ wizards[w].status = "feasibility_check"
        /\ wizards[w].start_date = 0 /\ wizards[w].end_date = 5
        /\ HasSpanRisk(wizards[w])
        /\ wizards[w].feasibility_passed = 0

(* C16: every stored risk of level error is blocking and every risk of     *)
(* level warning or info is not; whenever feasibility_passed is set it is  *)
(* 1 exactly when no stored risk is blocking.                              *)
C16_BlockingIsError ==
    \A w \in DOMAIN wizards :
        LET risks == wizards[w].feasibility_risks
        IN  /\ \A i \in DOMAIN risks :
                 /\ risks[i].level \in {"error", "warning", "info"}
                 /\ risks[i].level = "error" => risks[i].is_blocker
                 /\ risks[i].level \in {"warning", "info"} => ~risks[i].is_blocker
            /\ wizards[w].feasibility_passed # None
                 => (wizards[w].feasibility_passed = 1
                       <=> ~\E i \in DOMAIN risks : risks[i].is_blocker)
            /\ wizards[w].feasibility_passed \in {None, 0, 1}

C16_Witness ==
    \E w \in DOMAIN wizards :
        /\ wizards[w].feasibility_passed = 0
        /\ \E i \in DOMAIN wizards[w].feasibility_risks :
              wizards[w].feasibility_risks[i].level = "error"
        /\ \E i \in DOMAIN wizards[w].feasibility_risks :
              wizards[w].feasibility_risks[i].level = "warning"

(* The step is a successful confirm of wizard w.                            *)
ConfirmedNow(w) == wizards[w].status # "confirmed" /\ wizards'[w].status = "confirmed"

(* The draft plans of wizard w that a confirm activates for a target.      *)
DraftsFor(w, target_id) ==
    {d \in Range(wizards[w].draft_plan_ids) \cap DOMAIN plans :
        plans[d].status = "draft" /\ plans[d].target_id = target_id}

(* C17: an active plan of a target stays active in every step of the       *)
(* wizard flow except the successful confirm that activates a draft plan   *)
(* of the wizard for that target; after that confirm the plan is           *)
(* completed and the draft is active.                                      *)
C17_CompletedAtConfirm ==
    [][\A i \in DOMAIN plans :
          plans[i].status = "active"
          => IF \E w \in DOMAIN wizards :
                   ConfirmedNow(w) /\ DraftsFor(w, plans[i].target_id) # {}
             THEN /\ plans'[i].status = "completed"
                  /\ \A w \in DOMAIN wizards :
                        ConfirmedNow(w)
                        => \A d \in DraftsFor(w, plans[i].target_id) :
                              plans'[d].status = "active"
             ELSE plans'[i].status = "active"]_vars

C17_Witness ==
    \E w \in DOMAIN wizards, i \in DOMAIN plans :
        /\ wizards[w].status = "confirmed"
        /\ plans[i] = [LivePlan(1) EXCEPT !.status = "completed"]
        /\ \E d \in Range(wizards[w].draft_plan_ids) \cap DOMAIN plans :
              plans[d].target_id = 1 /\ plans[d].status = "active"

(* Every target of the list is in the store and owned by the go-getter.    *)
AllOwned(specs, go_getter_id) ==
    \A i \in DOMAIN specs :
        /\ specs[i].target_id \in DOMAIN targets
        /\ targets[specs[i].target_id].go_getter_id = go_getter_id

(* C18: set_targets on a non-terminal wizard stores, for every spec, the   *)
(* subcategory id the store holds for the target, whatever the caller      *)
(* sent; if a target id is unknown or belongs to another go-getter the     *)
(* call fails and the wizard row is left unchanged.                        *)
C18_SetTargetsNormalizes ==
    [][\A w \in DOMAIN wizards :
          /\ wizards[w].status \notin _TERMINAL
          /\ wizards'[w] = wizards[w] \/ wizards'[w].status = "collecting_constraints"
          => \A specs \in TargetSpecInputs :
          set_targets(w, specs)
          => IF AllOwned(specs, wizards[w].go_getter_id)
             THEN /\ set_targetsError(wizards[w], specs, targets) = "ok"
                  /\ wizards'[w].status = "collecting_constraints"
                  /\ Len(wizards'[w].target_specs) = Len(specs)
                  /\ \A i \in DOMAIN specs :
                        /\ wizards'[w].target_specs[i].target_id = specs[i].target_id
                        /\ wizards'[w].target_specs[i].priority = specs[i].priority
                        /\ wizards'[w].target_specs[i].subcategory_id
                              = targets[specs[i].target_id].subcategory_id
             ELSE /\ set_targetsError(wizards[w], specs, targets) # "ok"
                  /\ wizards'[w] = wizards[w]]_vars

C18_Witness ==
    \E w \in DOMAIN wizards :
        /\ wizards[w].status = "collecting_constraints"
        /\ wizards[w].target_specs # <<>>
        /\ \A i \in DOMAIN wizards[w].target_specs :
              /\ wizards[w].target_specs[i].subcategory_id # ClientSubcategory
              /\ wizards[w].target_specs[i].subcategory_id
                    = targets[wizards[w].target_specs[i].target_id].subcategory_id

(* C19: cancel on a wizard in any non-terminal status sets the wizard to   *)
(* cancelled and every plan of draft_plan_ids that is still draft to       *)
(* cancelled, and changes the status of no plan that is active, completed  *)
(* or already cancelled.                                                   *)
C19_CancelFromAnywhere ==
    [][\A w \in DOMAIN wizards :
          wizards[w].status \notin _TERMINAL /\ cancel_wizard(w)
          => /\ wizards'[w].status = "cancelled"
             /\ DOMAIN plans' = DOMAIN plans
             /\ \A i \in DOMAIN plans :
                   /\ i \in Range(wizards[w].draft_plan_ids) /\ plans[i].status = "draft"
                        => plans'[i].status = "cancelled"
                   /\ plans[i].status \in {"active", "completed", "cancelled"}
                        => plans'[i].status = plans[i].status]_vars

C19_Witness ==
    \E w \in DOMAIN wizards :
        /\ wizards[w].status = "cancelled"
        /\ \E i \in Range(wizards[w].draft_plan_ids) \cap DOMAIN plans :
              plans[i].status = "cancelled"
        /\ \E i \in DOMAIN plans : plans[i].status = "active"

(* The number of entries of a sequence of target ids that name target t.   *)
CountOf(ids, t) == Cardinality({i \in DOMAIN ids : ids[i] = t})

(* What a generate-and-check step leaves behind for wizard w: one outcome  *)
(* per target spec, either a new draft plan listed in draft_plan_ids or an *)
(* entry in generation_errors, and the report of the feasibility engine    *)
(* on the resulting store.                                                 *)
BatchCompleted(w) ==
    LET wizard == wizards'[w]
        ids    == wizard.draft_plan_ids
    IN  /\ wizard.status = "feasibility_check"
        /\ Len(ids) + Len(wizard.generation_errors) = Len(wizard.target_specs)
        /\ \A k \in DOMAIN ids :
              /\ ids[k] \in DOMAIN plans' \ DOMAIN plans
              /\ plans'[ids[k]].status = "draft"
              /\ \A j \in DOMAIN ids : ids[j] = ids[k] => j = k
        /\ \A t \in TargetIds :
              CountOf([i \in DOMAIN wizard.target_specs |-> wizard.target_specs[i].target_id], t)
                = CountOf([k \in DOMAIN ids |-> plans'[ids[k]].target_id], t)
                  + CountOf([e \in DOMAIN wizard.generation_errors |->
                               wizard.generation_errors[e].target_id], t)
        /\ wizard.feasibility_passed \in {0, 1}
        /\ wizard.feasibility_risks = check_feasibility(wizard, targets', plans', groups')
        /\ wizard.feasibility_passed = FeasibilityPassed(wizard.feasibility_risks)

(* C20: a generate-and-check step on a non-terminal wizard attempts every  *)
(* target spec whatever the generator does: each spec ends with a new      *)
(* draft plan id or with a generation error, the feasibility engine runs   *)
(* afterwards, and the wizard ends in feasibility_check with               *)
(* feasibility_passed and feasibility_risks set.  A step that leaves       *)
(* anything else behind is no step of set_constraints or adjust.           *)
C20_BatchNeverAborts ==
    [][\A w \in DOMAIN wizards :
          wizards[w].status \notin _TERMINAL /\ ~BatchCompleted(w)
          => ~GenerateAndCheckStep(w)]_vars

C20_Witness ==
    \E w \in DOMAIN wizards :
        /\ wizards[w].status = "feasibility_check"
        /\ Len(wizards[w].target_specs) = 2
        /\ Len(wizards[w].draft_plan_ids) = 1
        /\ Len(wizards[w].generation_errors) = 1
        /\ wizards[w].feasibility_passed # None
        /\ plans[wizards[w].draft_plan_ids[1]].status = "draft"

----------------------------------------------------------------------------
(* Subcategory exclusivity                                                 *)

(* The active targets of a go-getter in a subcategory that have an active  *)
(* plan.                                                                   *)
LiveTargetsIn(go_getter_id, subcategory_id) ==
    {t \in DOMAIN targets :
        /\ targets[t].go_getter_id = go_getter_id
        /\ targets[t].subcategory_id = subcategory_id
        /\ targets[t].status = "active"
        /\ ActivePlansOf(plans, t) # {}}

(* C21: for each (go-getter, subcategory) pair at most one active target   *)
(* has an active plan.                                                     *)
C21_SubcategoryExclusive ==
    \A g \in GoGetterIds, t \in DOMAIN targets :
        targets[t].subcategory_id # None
        => Cardinality(LiveTargetsIn(g, targets[t].subcategory_id)) <= 1

----------------------------------------------------------------------------
(* Further properties of the wizard handlers                               *)

----------------------------------------------------------------------------
(* Further properties of the re-planning orchestrator                      *)

(* C23: the swap of a re-plan leaves a new plan over [freeze boundary,     *)
(* group end date] with the old plan's version plus one, linked to the     *)
(* group and active, and the old plan cancelled and pointing to it; and    *)
(* every plan with a forward pointer is cancelled and points to a plan of  *)
(* the same target whose version is higher by exactly one.                 *)
C23_Regenerated ==
    [][/\ \A p \in ProcIds :
             ReplanSwap(p)
             => LET old == procs[p].active_plan
                    new == procs[p].new_plan
                    g   == procs[p].group_id
                IN  /\ plans'[new].start_date = procs[p].replan_from
                    /\ plans'[new].end_date = groups[g].end_date
                    /\ plans'[new].version = plans[old].version + 1
                    /\ plans'[new].group_id = g
                    /\ plans'[new].status = "active"
                    /\ plans'[new].target_id = plans[old].target_id
                    /\ plans'[old].status = "cancelled"
                    /\ plans'[old].superseded_by_id = new
       /\ \A i \in DOMAIN plans' :
             plans'[i].superseded_by_id # None
             => /\ plans'[i].status = "cancelled"
                /\ plans'[i].superseded_by_id \in DOMAIN plans'
                /\ plans'[plans'[i].superseded_by_id].target_id = plans'[i].target_id
                /\ plans'[plans'[i].superseded_by_id].version = plans'[i].version + 1]_vars

C23_Witness ==
    \E i \in DOMAIN plans :
        /\ plans[i].superseded_by_id # None
        /\ plans[i].status = "cancelled"
        /\ plans[plans[i].superseded_by_id].status = "active"
        /\ plans[plans[i].superseded_by_id].version = 2
        /\ plans[plans[i].superseded_by_id].start_date = 7
        /\ plans[plans[i].superseded_by_id].group_id = 1

(* The step in which the generator raises inside the re-plan of process p. *)
ReplanRaises(p) == procs[p].op # "generate" /\ LLMFails(p)

EditStep(p) == add_target_to_group(p) \/ remove_target_from_group(p)

EditError(p) ==
    IF procs[p].op = "add_target"
    THEN add_target_to_groupError(procs[p], targets, plans, groups, now)
    ELSE remove_target_from_groupError(procs[p], plans, now)

(* C25: add_target and remove_target check the cooldown first; a rejected  *)
(* edit (cooldown, or subcategory conflict for add_target) appends no      *)
(* GoalGroupChange and leaves targets, plans with their tasks, and the     *)
(* group's last_change_at and replan_status unchanged; an accepted edit    *)
(* appends exactly one GoalGroupChange for its group and target and goes   *)
(* on to trigger the re-plan holding that record; no other step appends a  *)
(* GoalGroupChange.                                                        *)
C25_EditFrame ==
    [][/\ \A p \in ProcIds :
             procs[p].pc = "edit" /\ EditStep(p)
             => /\ assert_change_allowed(procs[p].last_change_at, now) # "ok"
                     => EditError(p) = "cooldown"
                /\ EditError(p) \in {"cooldown", "subcategory_taken"}
                     => /\ UNCHANGED <<changes, targets, plans, groups>>
                        /\ procs'[p] = Returned(EditError(p))
                /\ EditError(p) = "ok"
                     => /\ Len(changes') = Len(changes) + 1
                        /\ SubSeq(changes', 1, Len(changes)) = changes
                        /\ changes'[Len(changes')].group_id = procs[p].group_id
                        /\ changes'[Len(changes')].target_id = procs[p].target_id
                        /\ changes'[Len(changes')].change_type
                              = (IF procs[p].op = "add_target" THEN "target_added"
                                 ELSE "target_removed")
                        /\ procs'[p].pc = "replan"
                        /\ procs'[p].change_id = Len(changes')
       /\ Len(changes') # Len(changes)
             => \E p \in ProcIds :
                   procs[p].pc = "edit" /\ EditError(p) = "ok" /\ procs'[p].pc = "replan"]_vars

C25_Witness ==
    \E p \in ProcIds :
        /\ procs[p].outcome \in {"cooldown", "subcategory_taken"}
        /\ Len(changes) = 1

(* C26: the re-plan step of a target supersedes every active task of the   *)
(* target's active plan in a milestone starting on or after the freeze     *)
(* boundary of the re-plan; a task only ever changes from active to        *)
(* superseded, and no plan, milestone or task row disappears.              *)
C26_FutureTasksSuperseded ==
    [][/\ \A p \in ProcIds :
             ReplanTarget(p)
             => LET old == Head(procs[p].todo).plan_id
                IN  \A m \in DOMAIN plans[old].milestones :
                       plans[old].milestones[m].start_date >= procs[p].replan_from
                       => \A k \in DOMAIN plans[old].milestones[m].tasks :
                             plans[old].milestones[m].tasks[k] = "active"
                             => plans'[old].milestones[m].tasks[k] = "superseded"
       /\ Len(plans') >= Len(plans)
       /\ \A i \in DOMAIN plans :
             /\ DOMAIN plans'[i].milestones = DOMAIN plans[i].milestones
             /\ \A m \in DOMAIN plans[i].milestones :
                   /\ DOMAIN plans'[i].milestones[m].tasks = DOMAIN plans[i].milestones[m].tasks
                   /\ \A k \in DOMAIN plans[i].milestones[m].tasks :
                         plans'[i].milestones[m].tasks[k] # plans[i].milestones[m].tasks[k]
                         => /\ plans[i].milestones[m].tasks[k] = "active"
                            /\ plans'[i].milestones[m].tasks[k] = "superseded"]_vars

(* C27 as stated: no step changes a task of a milestone that starts        *)
(* exactly on the upcoming Monday.                                         *)
C27_BoundaryMilestoneKept ==
    [][\A i \in DOMAIN plans : \A m \in DOMAIN plans[i].milestones :
          plans[i].milestones[m].start_date = _next_monday(now)
          => plans'[i].milestones[m].tasks = plans[i].milestones[m].tasks]_vars

(* C27, amended: tasks are superseded only in milestones starting on or    *)
(* after the upcoming Monday, and the re-plan step of a target supersedes  *)
(* the active tasks of its plan's milestone that starts exactly on the     *)
(* upcoming Monday.                                                        *)
C27_BoundaryMilestoneSuperseded ==
    [][/\ \A i \in DOMAIN plans : \A m \in DOMAIN plans[i].milestones :
             plans'[i].milestones[m].tasks # plans[i].milestones[m].tasks
             => plans[i].milestones[m].start_date >= _next_monday(now)
       /\ \A p \in ProcIds :
             ReplanTarget(p)
             => LET old == Head(procs[p].todo).plan_id
                IN  \A m \in DOMAIN plans[old].milestones :
                       plans[old].milestones[m].start_date = _next_monday(now)
                       => \A k \in DOMAIN plans[old].milestones[m].tasks :
                             plans[old].milestones[m].tasks[k] = "active"
                             => plans'[old].milestones[m].tasks[k] = "superseded"]_vars

C27_Witness ==
    \E i \in DOMAIN plans : \E m \in DOMAIN plans[i].milestones :
        /\ plans[i].milestones[m].start_date = _next_monday(now)
        /\ \E k \in DOMAIN plans[i].milestones[m].tasks :
              plans[i].milestones[m].tasks[k] = "superseded"
        /\ \E p \in ProcIds : procs[p].pc \in {"gen_llm", "replan_loop"}

(* C28: in the re-plan step of a target, if the group's end date is before *)
(* the freeze boundary the old plan is cancelled, the generator is not     *)
(* called and no plan is created; if the end date is the freeze boundary   *)
(* or later the generator is called for the target and the old plan is     *)
(* left as it is until the swap.                                           *)
C28_ExhaustedWindow ==
    [][\A p \in ProcIds :
          ReplanTarget(p)
          => LET item == Head(procs[p].todo)
             IN  IF groups[procs[p].group_id].end_date < procs[p].replan_from
                 THEN /\ plans'[item.plan_id].status = "cancelled"
                      /\ plans'[item.plan_id].superseded_by_id = None
                      /\ Len(plans') = Len(plans)
                      /\ procs'[p].pc = "replan_loop"
                      /\ procs'[p].todo = Tail(procs[p].todo)
                      /\ procs'[p].new_plan_ids = procs[p].new_plan_ids
                 ELSE /\ procs'[p].pc = "gen_llm"
                      /\ procs'[p].target_id = item.target_id
                      /\ procs'[p].active_plan = item.plan_id
                      /\ plans'[item.plan_id].status = plans[item.plan_id].status]_vars

C28_Witness ==
    \E p \in ProcIds, i \in DOMAIN plans :
        /\ procs[p].pc = "replan_loop"
        /\ groups[procs[p].group_id].end_date < procs[p].replan_from
        /\ plans[i].group_id = procs[p].group_id
        /\ plans[i].status = "cancelled"
        /\ plans[i].superseded_by_id = None
        /\ targets[plans[i].target_id].status = "active"
        /\ Len(plans) = 2

(* C29: a GoalGroupChange is never deleted and only its completion fields  *)
(* are ever written, once, by the re-plan it triggered when that re-plan   *)
(* finishes: triggered_replan_at becomes the current time and              *)
(* replan_plan_id the first new plan (null when none was generated); a     *)
(* re-plan that is skipped or raises leaves both fields null.              *)
C29_ChangeCompletion ==
    [][/\ Len(changes') >= Len(changes)
       /\ \A c \in DOMAIN changes :
             /\ changes'[c] = [changes[c] EXCEPT
                                 !.triggered_replan_at = changes'[c].triggered_replan_at,
                                 !.replan_plan_id = changes'[c].replan_plan_id]
             /\ changes'[c] # changes[c]
                => /\ changes[c].triggered_replan_at = None
                   /\ changes[c].replan_plan_id = None
                   /\ \E p \in ProcIds :
                         /\ procs[p].change_id = c
                         /\ procs[p].pc = "replan_loop"
                         /\ procs[p].todo = <<>>
                         /\ procs'[p].outcome = "ok"
                         /\ changes'[c].triggered_replan_at = now
                         /\ changes'[c].replan_plan_id =
                               IF procs[p].new_plan_ids # <<>>
                               THEN Head(procs[p].new_plan_ids) ELSE None
             /\ \A p \in ProcIds :
                   /\ procs[p].change_id = c
                   /\ procs'[p].outcome \in {"skipped", "raised"}
                   => /\ changes'[c].triggered_replan_at = None
                      /\ changes'[c].replan_plan_id = None]_vars

C29_Witness ==
    \E c \in DOMAIN changes :
        /\ changes[c].triggered_replan_at # None
        /\ changes[c].replan_plan_id \in DOMAIN plans
        /\ plans[changes[c].replan_plan_id].status = "active"
        /\ \E d \in DOMAIN changes :
              d # c /\ changes[d].triggered_replan_at = None

(* C30: a step of a re-plan changes the status of the old active plan only *)
(* in the swap, when the new draft plan of the target exists; while the    *)
(* plan is being generated the old plan's status stays as it was.          *)
C30_StageThenSwap ==
    [][\A p \in ProcIds :
          /\ procs[p].op # "generate"
          /\ GenDeactivate(p) \/ GenCreate(p) \/ LLMAnswers(p, procs'[p].weeks)
          => plans'[procs[p].active_plan].status = plans[procs[p].active_plan].status]_vars

----------------------------------------------------------------------------
(* Further properties of the feasibility engine                            *)

(* The daily minutes stored for the i-th target spec, 60 when none is.     *)
StoredMinutes(wizard, i) ==
    LET sub_id == wizard.target_specs[i].subcategory_id
    IN  IF sub_id \in {None, 0} THEN 60
        ELSE IF Str(sub_id) \in DOMAIN wizard.constraints
             THEN wizard.constraints[Str(sub_id)].daily_minutes
             ELSE IF IntKey(sub_id) \in DOMAIN wizard.constraints
                  THEN wizard.constraints[IntKey(sub_id)].daily_minutes
                  ELSE 60

RisksOf(wizard, rule_code) ==
    {i \in DOMAIN wizard.feasibility_risks :
        wizard.feasibility_risks[i].rule_code = rule_code}

(* C31: a checked wizard carries one single-target-overload warning for    *)
(* each target spec whose daily minutes (60 when no constraint is stored)  *)
(* exceed 120, and the total-overload warning exactly when the sum over    *)
(* all specs exceeds 120 and there is more than one spec; neither risk is  *)
(* blocking.                                                               *)
C31_OverloadRules ==
    \A w \in DOMAIN wizards :
        wizards[w].status = "feasibility_check"
        => LET wizard == wizards[w]
               over == {i \in DOMAIN wizard.target_specs : StoredMinutes(wizard, i) > 120}
               total == SumSeq([i \in DOMAIN wizard.target_specs |-> StoredMinutes(wizard, i)])
           IN  /\ Cardinality(RisksOf(wizard, "RULE_SINGLE_TARGET_OVERLOAD")) = Cardinality(over)
               /\ \A i \in RisksOf(wizard, "RULE_SINGLE_TARGET_OVERLOAD") :
                     \E s \in over :
                        wizard.target_specs[s].subcategory_id
                           = wizard.feasibility_risks[i].subcategory_id
               /\ Cardinality(RisksOf(wizard, "RULE_OVERLOAD"))
                     = IF total > 120 /\ Len(wizard.target_specs) > 1 THEN 1 ELSE 0
               /\ Len(wizard.target_specs) = 1 => RisksOf(wizard, "RULE_OVERLOAD") = {}
               /\ \A i \in RisksOf(wizard, "RULE_SINGLE_TARGET_OVERLOAD")
                             \cup RisksOf(wizard, "RULE_OVERLOAD") :
                     /\ wizard.feasibility_risks[i].level = "warning"
                     /\ ~wizard.feasibility_risks[i].is_blocker

(* Two specs at 61 minutes each: the total rule fires without the single   *)
(* rule, and the check passes.                                             *)
C31_Witness ==
    \E w \in DOMAIN wizards :
        /\ wizards[w].status = "feasibility_check"
        /\ Len(wizards[w].target_specs) = 2
        /\ \A i \in DOMAIN wizards[w].target_specs : StoredMinutes(wizards[w], i) = 61
        /\ RisksOf(wizards[w], "RULE_OVERLOAD") # {}
        /\ RisksOf(wizards[w], "RULE_SINGLE_TARGET_OVERLOAD") = {}
        /\ wizards[w].start_date = 0 /\ wizards[w].end_date = 7
        /\ plans = <<>>

(* C32: for every stored wizard that can still be checked,                 *)
(* check_feasibility returns a risk list that holds a blocking             *)
(* existing-active-subcategory error for a target spec exactly when a      *)
(* different active target of the go-getter in the spec's subcategory has  *)
(* an active plan; an active plan of the spec's own target does not count. *)
C32_ExistingSubcategoryRule ==
    \A w \in DOMAIN wizards :
        wizards[w].status \notin _TERMINAL
        => LET wizard == wizards[w]
               risks == check_feasibility(wizard, targets, plans, groups)
               others(spec) ==
                   {i \in DOMAIN plans :
                       /\ plans[i].status = "active"
                       /\ plans[i].target_id # spec.target_id
                       /\ targets[plans[i].target_id].status = "active"
                       /\ targets[plans[i].target_id].go_getter_id = wizard.go_getter_id
                       /\ targets[plans[i].target_id].subcategory_id = spec.subcategory_id}
               flagged == {i \in DOMAIN wizard.target_specs :
                              /\ wizard.target_specs[i].subcategory_id # None
                              /\ others(wizard.target_specs[i]) # {}}
           IN  /\ check_feasibilityError(wizard, targets, plans, groups) = "ok"
               /\ Cardinality({r \in DOMAIN risks :
                      risks[r].rule_code = "RULE_EXISTING_ACTIVE_SUBCATEGORY"})
                     = Cardinality(flagged)
               /\ \A r \in DOMAIN risks :
                     risks[r].rule_code = "RULE_EXISTING_ACTIVE_SUBCATEGORY"
                     => /\ risks[r].is_blocker
                        /\ \E i \in flagged :
                              wizard.target_specs[i].subcategory_id = risks[r].subcategory_id

(* C33: an existing active GoalGroup of the go-getter shows in the         *)
(* feasibility result only as a non-blocking warning, and a wizard whose   *)
(* other confirm preconditions hold (not terminal, feasibility passed,     *)
(* draft plans, no generation errors) is not rejected by confirm.          *)
C33_ActiveGroupIsWarning ==
    \A w \in DOMAIN wizards :
        LET wizard == wizards[w]
        IN  /\ \A i \in RisksOf(wizard, "RULE_EXISTING_ACTIVE_GROUP") :
                  /\ wizard.feasibility_risks[i].level = "warning"
                  /\ ~wizard.feasibility_risks[i].is_blocker
            /\ (/\ wizard.status \notin _TERMINAL
                /\ wizard.feasibility_passed = 1
                /\ wizard.draft_plan_ids # <<>>
                /\ wizard.generation_errors = <<>>)
               => confirmError(wizard, groups) = "ok"

----------------------------------------------------------------------------
(* Properties of the wizard requests taken step by step (SpecSweep).       *)

(* C34: adjust stores only the supplied parts of the patch with status     *)
(* adjusting and touches no plan; it then cancels exactly the plans listed *)
(* in draft_plan_ids that are still draft, empties the list and goes to    *)
(* generating_plans; its generation leaves the older plans alone, lists    *)
(* only plans it created and ends in feasibility_check.                    *)
C34_AdjustSteps ==
    [][\A p \in ProcIds :
          /\ \A w \in DOMAIN wizards, patch \in AdjustPatches :
                StartAdjust(p, w, patch) /\ adjustError(wizards[w]) = "ok"
                => /\ wizards'[w] =
                        [wizards[w] EXCEPT
                           !.status = "adjusting",
                           !.target_specs = IF patch.has_target_specs
                                            THEN patch.target_specs ELSE @,
                           !.constraints = IF patch.has_constraints
                                           THEN wizards'[w].constraints ELSE @]
                   /\ patch.has_constraints
                        => \A k \in DOMAIN patch.constraints :
                              wizards'[w].constraints[Str(k[2])] = patch.constraints[k]
                   /\ plans' = plans
          /\ AdjustCancel(p)
                => LET w == procs[p].wizard_id
                   IN  /\ Len(plans') = Len(plans)
                       /\ \A i \in DOMAIN plans :
                             plans'[i] =
                               IF i \in Range(wizards[w].draft_plan_ids)
                                  /\ plans[i].status = "draft"
                               THEN [plans[i] EXCEPT !.status = "cancelled"]
                               ELSE plans[i]
                       /\ wizards'[w].draft_plan_ids = <<>>
                       /\ wizards'[w].status = "generating_plans"
          /\ procs[p].op = "adjust" /\ procs[p].pc = "wiz_generate"
             /\ procs'[p].pc = "idle"
                => LET w == procs[p].wizard_id
                   IN  /\ \A i \in DOMAIN plans : plans'[i] = plans[i]
                       /\ Range(wizards'[w].draft_plan_ids)
                             \subseteq (DOMAIN plans') \ (DOMAIN plans)
                       /\ \A i \in Range(wizards'[w].draft_plan_ids) :
                             plans'[i].status = "draft"
                       /\ wizards'[w].status = "feasibility_check"
                       /\ wizards'[w].target_specs = wizards[w].target_specs
                       /\ wizards'[w].constraints = wizards[w].constraints]_vars

(* An adjust that changed the constraints has returned: the first draft is *)
(* cancelled and the list holds the draft generated by the adjust.         *)
C34_Witness ==
    \E w \in DOMAIN wizards :
        /\ wizards[w].status = "feasibility_check"
        /\ Str(1) \in DOMAIN wizards[w].constraints
        /\ wizards[w].constraints[Str(1)].daily_minutes = 45
        /\ wizards[w].target_specs # <<>>
        /\ wizards[w].draft_plan_ids = <<2>>
        /\ Len(plans) = 2
        /\ plans[1].status = "cancelled"
        /\ plans[2].status = "draft"
        /\ \E p \in ProcIds : procs[p].outcome = "ok"

(* C36: a cancelled wizard stays cancelled and none of its listed draft    *)
(* plans becomes active in any later step, also when the janitor swept it  *)
(* while a request for it was in flight; expire_stale changes only the     *)
(* status of wizards that are non-terminal and past expires_at.            *)
C36_SweptStaysCancelled ==
    [][/\ \A w \in DOMAIN wizards :
             wizards[w].status = "cancelled"
             => /\ wizards'[w].status = "cancelled"
                /\ \A i \in Range(wizards[w].draft_plan_ids) \cap DOMAIN plans :
                      plans[i].status = "draft" => plans'[i].status # "active"
       /\ expire_stale
             => /\ \A w \in DOMAIN wizards :
                      wizards'[w] # wizards[w]
                      => /\ wizards[w].status \notin _TERMINAL
                         /\ wizards[w].expires_at < now
                         /\ wizards'[w] = [wizards[w] EXCEPT !.status = "cancelled"]
                /\ UNCHANGED <<targets, plans, groups, changes, procs>>]_vars

----------------------------------------------------------------------------
(* Properties of the group edits and the re-plans they trigger.            *)

(* The target whose removal or addition a request recorded.                *)
ChangedTarget(p) == changes[procs[p].change_id].target_id

(* C35: a remove_target that passes its checks leaves the target           *)
(* cancelled with no active plan, its former active plan cancelled and the *)
(* active tasks of that plan's milestones starting on or after the next    *)
(* Monday superseded; the re-plan it triggers works only on active targets *)
(* of the group other than the removed one and creates no plan for it; a   *)
(* re-plan skipped on a busy lock changes no target and no plan.           *)
C35_RemoveEffects ==
    [][\A p \in ProcIds :
          /\ remove_target_from_group(p) /\ procs'[p].pc = "replan"
                => LET t == procs[p].target_id
                   IN  /\ targets'[t].status = "cancelled"
                       /\ ActivePlansOf(plans', t) = {}
                       /\ \A i \in ActivePlansOf(plans, t) :
                             /\ plans'[i].status = "cancelled"
                             /\ \A m \in DOMAIN plans[i].milestones :
                                   \A k \in DOMAIN plans[i].milestones[m].tasks :
                                      plans'[i].milestones[m].tasks[k] =
                                        IF plans[i].milestones[m].start_date >= _next_monday(now)
                                           /\ plans[i].milestones[m].tasks[k] = "active"
                                        THEN "superseded"
                                        ELSE plans[i].milestones[m].tasks[k]
          /\ procs[p].op = "remove_target" /\ procs[p].change_id # None
                => /\ targets[ChangedTarget(p)].status = "cancelled"
                   /\ trigger_replan(p)
                        => /\ targets' = targets /\ plans' = plans
                           /\ \A i \in DOMAIN procs'[p].todo :
                                 /\ procs'[p].todo[i].target_id # ChangedTarget(p)
                                 /\ targets[procs'[p].todo[i].target_id].status = "active"
                                 /\ targets[procs'[p].todo[i].target_id].group_id
                                       = procs[p].group_id
                   /\ ReplanTarget(p) => Head(procs[p].todo).target_id # ChangedTarget(p)
                   /\ GenCreate(p) => plans'[Len(plans')].target_id # ChangedTarget(p)]_vars

(* Target 1 was removed while another re-plan held the lock: the re-plan   *)
(* of the removal was skipped, the target and its plan are cancelled and   *)
(* only the second week's task is superseded.                              *)
C35_Witness ==
    /\ \E p \in ProcIds : procs[p].outcome = "skipped"
    /\ \E c \in DOMAIN changes :
          changes[c].change_type = "target_removed" /\ changes[c].target_id = 1
    /\ targets[1].status = "cancelled"
    /\ ActivePlansOf(plans, 1) = {}
    /\ plans[1].status = "cancelled"
    /\ plans[1].milestones[1].tasks[1] = "active"
    /\ plans[1].milestones[2].tasks[1] = "superseded"

----------------------------------------------------------------------------
(* Ownership of draft plans (checked under SpecWizard).                    *)

(* C37: every plan with status draft is listed in draft_plan_ids of a      *)
(* wizard that is not terminal.                                            *)
C37_DraftsAreOwned ==
    \A i \in DOMAIN plans :
        plans[i].status = "draft"
        => \E w \in DOMAIN wizards :
              /\ wizards[w].status \notin _TERMINAL
              /\ i \in Range(wizards[w].draft_plan_ids)

----------------------------------------------------------------------------
(* Ownership of what a wizard stores and links (checked under SpecGrouped). *)

(* C38: every target spec stored in a wizard names a target of the         *)
(* wizard's go-getter with that target's subcategory, and every target and *)
(* plan linked to a GoalGroup belongs to the group's go-getter.            *)
C38_SpecsAreOwned ==
    /\ \A w \in DOMAIN wizards :
          \A i \in DOMAIN wizards[w].target_specs :
             LET spec == wizards[w].target_specs[i]
             IN  /\ spec.target_id \in DOMAIN targets
                 /\ targets[spec.target_id].go_getter_id = wizards[w].go_getter_id
                 /\ spec.subcategory_id = targets[spec.target_id].subcategory_id
    /\ \A t \in DOMAIN targets :
          targets[t].group_id # None
          => groups[targets[t].group_id].go_getter_id = targets[t].go_getter_id
    /\ \A i \in DOMAIN plans :
          plans[i].group_id # None
          => groups[plans[i].group_id].go_getter_id = targets[plans[i].target_id].go_getter_id

----------------------------------------------------------------------------
(* Currency of what confirm acts on (checked under SpecWizard).            *)

(* C39: when confirm succeeds, the targets of the plans it activates are   *)
(* exactly the targets of the wizard's target_specs, and the wizard is in  *)
(* feasibility_check, the status every generate-and-check leaves and every *)
(* set_scope or set_targets replaces: the feasibility result is newer than *)
(* the last change of scope or targets.                                    *)
C39_ConfirmActsOnCurrent ==
    [][\A w \in DOMAIN wizards :
          wizards[w].status # "confirmed" /\ wizards'[w].status = "confirmed"
          => /\ {plans[i].target_id :
                    i \in {j \in DOMAIN plans :
                             plans[j].status = "draft" /\ plans'[j].status = "active"}}
                  = {wizards[w].target_specs[i].target_id :
                        i \in DOMAIN wizards[w].target_specs}
             /\ wizards[w].status = "feasibility_check"]_vars

(* C40: when the re-plan of a successful add_target has run to completion  *)
(* and the group still has a week left after the freeze boundary, every    *)
(* active target of the group, the added one included, has exactly one     *)
(* active plan, running from the freeze boundary to the group's end date.  *)
C40_AddedTargetIsPlanned ==
    [][\A p \in ProcIds :
          /\ procs[p].op = "add_target"
          /\ procs[p].pc = "replan_loop"
          /\ procs[p].todo = <<>>
          /\ procs'[p].outcome = "ok"
          /\ ~WindowExhausted(groups[procs[p].group_id], procs[p].replan_from)
          => \A t \in DOMAIN targets :
                targets[t].group_id = procs[p].group_id /\ targets[t].status = "active"
                => \E i \in ActivePlansOf(plans', t) :
                      /\ ActivePlansOf(plans', t) = {i}
                      /\ plans'[i].start_date = procs[p].replan_from
                      /\ plans'[i].end_date = groups[procs[p].group_id].end_date]_vars

============================================================================
